---- MODULE Spec2Model ----
(***************************************************************************)
(* Model of the credit-risk scoring engine of the repository:              *)
(*   backend/app/financial_models/financial_models.py  (company formulas)  *)
(*   backend/app/financial_models/individual_models.py (individual score)  *)
(*   backend/app/financial_models/model.py             (validator,         *)
(*                                                      orchestrator)      *)
(*                                                                         *)
(* Python floats are modelled as IEEE 754 doubles, with the rounding of    *)
(* every operation, so a comparison with a threshold gives what the code   *)
(* gives.                                                                  *)
(* Python dictionaries are functions whose DOMAIN is the set of keys.      *)
(* Recommendation texts and error messages are modelled by identifiers     *)
(* (one per distinct string literal of the source).                        *)
(***************************************************************************)
EXTENDS Integers, Sequences, FiniteSets, TLC

VARIABLES op, input, result, trace, history, db, inflight

vars == <<op, input, result, trace, history, db, inflight>>

\* The two tables of db_models.py, without rows.
EmptyDatabase == [company_assessments |-> <<>>, individual_assessments |-> <<>>]

----------------------------------------------------------------------------
(* Python float arithmetic: IEEE 754 binary64, every operation rounded to  *)
(* the nearest double, a tie to the one with the even mantissa.  A double  *)
(* is [neg, m, e] and stands for (-1)^neg * m * 2^e; m is a natural number *)
(* of exactly 53 bits (zero is the empty m with e = 0), written as its     *)
(* digits in base 2^15, the least significant first, so that no            *)
(* intermediate number needs more than 32 bits.  Infinities, NaN and       *)
(* subnormal numbers do not arise from operands below 2^31 in magnitude    *)
(* and are left out.                                                       *)
(*                                                                         *)
(* An operand is bound once, as the element of a one-element set, before   *)
(* it is used: CHOOSE r \in {f(v) : v \in {operand}} : TRUE is f(operand). *)

Abs(x) == IF x < 0 THEN -x ELSE x

Base == 2^15

Digit(a, i) == IF i <= Len(a) THEN a[i] ELSE 0

RECURSIVE BTrim(_)
BTrim(a) ==
    CHOOSE r \in {IF v # <<>> /\ v[Len(v)] = 0 THEN BTrim(SubSeq(v, 1, Len(v) - 1)) ELSE v :
                     v \in {a}} : TRUE

RECURSIVE BFromInt(_)
BFromInt(k) == IF k = 0 THEN <<>> ELSE <<k % Base>> \o BFromInt(k \div Base)

RECURSIVE BCmpFrom(_, _, _)
BCmpFrom(a, b, i) ==
    IF i = 0 THEN 0
    ELSE IF Digit(a, i) < Digit(b, i) THEN -1
    ELSE IF Digit(a, i) > Digit(b, i) THEN 1
    ELSE BCmpFrom(a, b, i - 1)

\* -1, 0 or 1 as a < b, a = b or a > b
BCmp(a, b) ==
    CHOOSE r \in {BCmpFrom(v[1], v[2], IF Len(v[1]) > Len(v[2]) THEN Len(v[1]) ELSE Len(v[2])) :
                     v \in {<<a, b>>}} : TRUE

RECURSIVE BAddFrom(_, _, _, _)
BAddFrom(a, b, i, carry) ==
    IF i > Len(a) /\ i > Len(b)
    THEN IF carry = 0 THEN <<>> ELSE <<carry>>
    ELSE CHOOSE r \in {<<s % Base>> \o BAddFrom(a, b, i + 1, s \div Base) :
                          s \in {Digit(a, i) + Digit(b, i) + carry}} : TRUE

BAdd(a, b) == CHOOSE r \in {BAddFrom(v[1], v[2], 1, 0) : v \in {<<a, b>>}} : TRUE

RECURSIVE BSubFrom(_, _, _, _)
BSubFrom(a, b, i, borrow) ==
    IF i > Len(a) THEN <<>>
    ELSE CHOOSE r \in {<<(s + Base) % Base>> \o BSubFrom(a, b, i + 1, IF s < 0 THEN 1 ELSE 0) :
                          s \in {a[i] - Digit(b, i) - borrow}} : TRUE

\* a - b for a >= b
BSub(a, b) == BTrim(CHOOSE r \in {BSubFrom(v[1], v[2], 1, 0) : v \in {<<a, b>>}} : TRUE)

RECURSIVE BMulSmallFrom(_, _, _, _)
BMulSmallFrom(a, k, i, carry) ==
    IF i > Len(a)
    THEN IF carry = 0 THEN <<>> ELSE <<carry>>
    ELSE CHOOSE r \in {<<s % Base>> \o BMulSmallFrom(a, k, i + 1, s \div Base) :
                          s \in {a[i] * k + carry}} : TRUE

\* a * k for 0 <= k < Base
BMulSmall(a, k) ==
    CHOOSE r \in {IF v[2] = 0 THEN <<>> ELSE BMulSmallFrom(v[1], v[2], 1, 0) :
                     v \in {<<a, k>>}} : TRUE

BShiftDigits(a, n) ==
    CHOOSE r \in {IF v = <<>> THEN v ELSE [i \in 1..n |-> 0] \o v : v \in {a}} : TRUE

RECURSIVE BMulFrom(_, _, _)
BMulFrom(a, b, i) ==
    IF i > Len(b) THEN <<>>
    ELSE BAdd(BShiftDigits(BMulSmall(a, b[i]), i - 1), BMulFrom(a, b, i + 1))

BMul(a, b) == CHOOSE r \in {BMulFrom(v[1], v[2], 1) : v \in {<<a, b>>}} : TRUE

RECURSIVE BDivSmallFrom(_, _, _, _)
BDivSmallFrom(a, k, i, rem) ==
    IF i = 0 THEN <<>>
    ELSE CHOOSE r \in {BDivSmallFrom(a, k, i - 1, s % k) \o <<s \div k>> :
                          s \in {rem * Base + a[i]}} : TRUE

\* a \div k for 0 < k <= Base
BDivSmall(a, k) ==
    BTrim(CHOOSE r \in {BDivSmallFrom(v[1], v[2], Len(v[1]), 0) : v \in {<<a, k>>}} : TRUE)

\* a * 2^n
BShl(a, n) == BShiftDigits(BMulSmall(a, 2^(n % 15)), n \div 15)

\* a \div 2^n
BShr(a, n) ==
    CHOOSE r \in {IF v[2] \div 15 >= Len(v[1]) THEN <<>>
                  ELSE BDivSmall(SubSeq(v[1], v[2] \div 15 + 1, Len(v[1])), 2^(v[2] % 15)) :
                     v \in {<<a, n>>}} : TRUE

RECURSIVE DigitBits(_)
DigitBits(k) == IF k = 0 THEN 0 ELSE 1 + DigitBits(k \div 2)

\* The number of binary digits of a.
BitLen(a) ==
    CHOOSE r \in {IF v = <<>> THEN 0 ELSE 15 * (Len(v) - 1) + DigitBits(v[Len(v)]) :
                     v \in {a}} : TRUE

\* Binary digit n of a, the lowest being digit 0.
BBit(a, n) == (Digit(a, n \div 15 + 1) \div 2^(n % 15)) % 2

\* The n lowest binary digits of a are zero.
BLowZero(a, n) == \E v \in {<<a, n>>} : BShl(BShr(v[1], v[2]), v[2]) = v[1]

\* The digit of the quotient r \div b for r < b * Base and the highest
\* digit of b at least Base / 2: the estimate from the two highest digits of
\* r, lowered until it fits.
RECURSIVE BFit(_, _, _)
BFit(r, b, q) ==
    CHOOSE d \in {IF BCmp(BMulSmall(b, v), r) > 0 THEN BFit(r, b, v - 1) ELSE v :
                     v \in {q}} : TRUE

BQuotientDigit(r, b) ==
    CHOOSE d \in {BFit(r, b, IF estimate > Base - 1 THEN Base - 1 ELSE estimate) :
                     estimate \in {(Digit(r, Len(b) + 1) * Base + Digit(r, Len(b)))
                                       \div b[Len(b)]}} : TRUE

\* Long division of the digits a[i], ..., a[1] after the remainder rem of
\* the higher ones: [q, r].
RECURSIVE BDivFrom(_, _, _, _)
BDivFrom(a, b, i, rem) ==
    IF i = 0 THEN [q |-> <<>>, r |-> rem]
    ELSE CHOOSE out \in
             {CHOOSE o \in {[q |-> Append(rest.q, x.d), r |-> rest.r] :
                               rest \in {BDivFrom(a, b, i - 1,
                                                  BSub(x.r, BMulSmall(b, x.d)))}} : TRUE :
                 x \in {[r |-> r, d |-> BQuotientDigit(r, b)] :
                           r \in {BTrim(<<a[i]>> \o rem)}}} : TRUE

\* [q, r] with a = q * b + r for a b of one digit.
BDivModSmall(a, k) ==
    CHOOSE out \in {[q |-> q, r |-> BSub(a, BMulSmall(q, k))] : q \in {BDivSmall(a, k)}} : TRUE

\* [q, r] with a = q * b + r * 2^-s and 0 <= r * 2^-s < b, for b > 0, s the
\* shift that brings the highest digit of b to Base / 2 or more.
BDivModLong(a, b) ==
    CHOOSE out \in
        {[q |-> BTrim(d.q), r |-> d.r] :
            d \in {BDivFrom(x[1], x[2], Len(x[1]), <<>>) :
                      x \in {<<BShl(v[1], 15 - DigitBits(v[2][Len(v[2])])),
                               BShl(v[2], 15 - DigitBits(v[2][Len(v[2])]))>> :
                                v \in {<<a, b>>}}}} : TRUE

BDivMod(a, b) ==
    CHOOSE out \in {IF Len(v[2]) = 1 THEN BDivModSmall(v[1], v[2][1])
                    ELSE BDivModLong(v[1], v[2]) : v \in {<<a, b>>}} : TRUE

Zero == [neg |-> FALSE, m |-> <<>>, e |-> 0]

\* n, of more than 53 binary digits, loses its drop lowest ones and the
\* rest q goes up by one: more than half is lost, or half and q is odd.
RoundsUp(n, drop, q, inexact) ==
    /\ BBit(n, drop - 1) = 1
    /\ (inexact \/ ~BLowZero(n, drop - 1) \/ q[1] % 2 = 1)

\* The double of n * 2^e rounded to 53 binary digits, n having bits digits.
NearestBits(neg, n, bits, e, inexact) ==
    IF n = <<>> THEN Zero
    ELSE IF bits <= 53
    THEN [neg |-> neg, m |-> BShl(n, 53 - bits), e |-> e - (53 - bits)]
    ELSE CHOOSE r \in
             {IF BitLen(q1) > 53
              THEN [neg |-> neg, m |-> BShr(q1, 1), e |-> e + (bits - 53) + 1]
              ELSE [neg |-> neg, m |-> q1, e |-> e + (bits - 53)] :
                 q1 \in {IF RoundsUp(n, bits - 53, q, inexact) THEN BAdd(q, <<1>>) ELSE q :
                            q \in {BShr(n, bits - 53)}}} : TRUE

\* The double nearest to (-1)^neg * n * 2^e, or to a number strictly between
\* that and the next one of n + 1 when inexact; n has 55 binary digits
\* or more when inexact.
Nearest(neg, n, e, inexact) ==
    CHOOSE r \in {NearestBits(v[1], v[2], BitLen(v[2]), v[3], v[4]) :
                     v \in {<<neg, n, e, inexact>>}} : TRUE

\* The binary digits n is shifted up by before the division by d, for a
\* quotient of 55 digits or more.
QuotientShift(n, d) ==
    IF 55 + BitLen(d) > BitLen(n) THEN 55 + BitLen(d) - BitLen(n) ELSE 0

\* The double nearest to (-1)^neg * (n / d) * 2^e for naturals n and d > 0.
NearestQuotient(neg, n, d, e) ==
    CHOOSE r \in
        {IF v.n = <<>> THEN Zero
         ELSE CHOOSE s \in {Nearest(v.neg, qr.q, v.e - v.k, qr.r # <<>>) :
                               qr \in {BDivMod(BShl(v.n, v.k), v.d)}} : TRUE :
            v \in {[neg |-> neg, n |-> x[1], d |-> x[2], e |-> e,
                    k |-> QuotientShift(x[1], x[2])] : x \in {<<n, d>>}}} : TRUE

\* float(k)
R(k) == Nearest(k < 0, BFromInt(Abs(k)), 0, FALSE)

\* n / d for integers n and d, and the literal of the decimal n / d
Rat(n, d) == NearestQuotient((n < 0) # (d < 0), BFromInt(Abs(n)), BFromInt(Abs(d)), 0)

\* -1, 0 or 1 as |a| < |b|, |a| = |b| or |a| > |b|
MagnitudeCmp(a, b) ==
    IF a.m = <<>> \/ b.m = <<>>
    THEN (IF a.m # <<>> THEN 1 ELSE IF b.m # <<>> THEN -1 ELSE 0)
    ELSE IF a.e # b.e THEN (IF a.e < b.e THEN -1 ELSE 1)
    ELSE BCmp(a.m, b.m)

\* a < b for the bound operands
Less(a, b) ==
    IF a.neg # b.neg THEN a.neg /\ (a.m # <<>> \/ b.m # <<>>)
    ELSE IF a.neg THEN MagnitudeCmp(a, b) > 0 ELSE MagnitudeCmp(a, b) < 0

RLt(a, b)  == \E v \in {<<a, b>>} : Less(v[1], v[2])
REq(a, b)  == a = b
RLe(a, b)  == \E v \in {<<a, b>>} : Less(v[1], v[2]) \/ v[1] = v[2]
RGt(a, b)  == \E v \in {<<a, b>>} : Less(v[2], v[1])

RNeg(a) == CHOOSE r \in {IF v.m = <<>> THEN v ELSE [v EXCEPT !.neg = ~v.neg] : v \in {a}} : TRUE

\* a + b for |a| >= |b|: b is brought to the exponent of a less 64, or
\* counts as a remainder when it lies further below.
AddOrdered(a, b) ==
    IF b.m = <<>> THEN a
    ELSE IF a.e - b.e > 64
    THEN Nearest(a.neg,
                 IF a.neg = b.neg THEN BShl(a.m, 2) ELSE BSub(BShl(a.m, 2), <<1>>),
                 a.e - 2, TRUE)
    ELSE IF a.neg = b.neg
    THEN Nearest(a.neg, BAdd(BShl(a.m, a.e - b.e), b.m), b.e, FALSE)
    ELSE Nearest(a.neg, BSub(BShl(a.m, a.e - b.e), b.m), b.e, FALSE)

RAdd(a, b) ==
    CHOOSE r \in {IF MagnitudeCmp(v[1], v[2]) >= 0 THEN AddOrdered(v[1], v[2])
                  ELSE AddOrdered(v[2], v[1]) : v \in {<<a, b>>}} : TRUE
RSub(a, b) == RAdd(a, RNeg(b))
RMul(a, b) ==
    CHOOSE r \in {Nearest(v[1].neg # v[2].neg, BMul(v[1].m, v[2].m), v[1].e + v[2].e, FALSE) :
                     v \in {<<a, b>>}} : TRUE
RDiv(a, b) ==
    CHOOSE r \in {NearestQuotient(v[1].neg # v[2].neg, v[1].m, v[2].m, v[1].e - v[2].e) :
                     v \in {<<a, b>>}} : TRUE
\* Python min(a, b) / max(a, b): the first argument wins a tie.
RMin(a, b) == CHOOSE r \in {IF Less(v[2], v[1]) THEN v[2] ELSE v[1] : v \in {<<a, b>>}} : TRUE
RMax(a, b) == CHOOSE r \in {IF Less(v[1], v[2]) THEN v[2] ELSE v[1] : v \in {<<a, b>>}} : TRUE

Pow10(p) == IF p = 4 THEN 10000 ELSE IF p = 2 THEN 100 ELSE 1

\* A Python number is an int, written as an integer, or a float, written as
\* a double: the text of a double starts with the bracket of a record.
IsFloat(x) == Head(ToString(x)) = "["

\* float(x)
Float(x) == CHOOSE r \in {IF IsFloat(v) THEN v ELSE R(v) : v \in {x}} : TRUE

\* a / b: the quotient of two ints is the double nearest to it, and an int
\* divided by or dividing a float is converted first.
TrueDiv(a, b) ==
    CHOOSE r \in {IF IsFloat(v[1]) \/ IsFloat(v[2]) THEN RDiv(Float(v[1]), Float(v[2]))
                  ELSE Rat(v[1], v[2]) : v \in {<<a, b>>}} : TRUE

\* a * b: an int for two ints, else the product of the floats.
Times(a, b) ==
    CHOOSE r \in {IF IsFloat(v[1]) \/ IsFloat(v[2]) THEN RMul(Float(v[1]), Float(v[2]))
                  ELSE v[1] * v[2] : v \in {<<a, b>>}} : TRUE

\* a - b: an int for two ints, else the difference of the floats.
Minus(a, b) ==
    CHOOSE r \in {IF IsFloat(v[1]) \/ IsFloat(v[2]) THEN RSub(Float(v[1]), Float(v[2]))
                  ELSE v[1] - v[2] : v \in {<<a, b>>}} : TRUE

\* a < b and a <= b for ints and floats
NumLt(a, b) ==
    \E v \in {<<a, b>>} : IF IsFloat(v[1]) \/ IsFloat(v[2]) THEN RLt(Float(v[1]), Float(v[2]))
                          ELSE v[1] < v[2]
NumLe(a, b) ==
    \E v \in {<<a, b>>} : IF IsFloat(v[1]) \/ IsFloat(v[2]) THEN RLe(Float(v[1]), Float(v[2]))
                          ELSE v[1] <= v[2]

\* n * 2^e for e < 0 rounded to an integer, a tie going to the even one.
HalfEven(n, e) ==
    CHOOSE r \in
        {IF BBit(v.n, -v.e - 1) = 1 /\ (~BLowZero(v.n, -v.e - 1) \/ BBit(v.q, 0) = 1)
         THEN BAdd(v.q, <<1>>) ELSE v.q :
            v \in {[n |-> x, e |-> e, q |-> BShr(x, -e)] : x \in {n}}} : TRUE

\* round(x, p): the double nearest to the multiple of 10^-p that is nearest
\* to the value of the double x, an exact tie going to the even multiple.
Round(x, p) ==
    CHOOSE r \in {IF v.e >= 0 THEN v
                  ELSE NearestQuotient(v.neg, HalfEven(BMulSmall(v.m, Pow10(p)), v.e),
                                       BFromInt(Pow10(p)), 0) : v \in {x}} : TRUE

\* dict.get(key, 0): the default argument ignored.
Get_zero_default(fd, key, default) == IF key \in DOMAIN fd THEN fd[key] ELSE 0

\* dict.get(key, default)
Get(fd, key, default) == IF key \in DOMAIN fd THEN fd[key] ELSE default

----------------------------------------------------------------------------
(* financial_models.py                                                     *)

ALTMAN_SAFE_THRESHOLD == Rat(299, 100)
ALTMAN_GRAY_THRESHOLD == Rat(181, 100)
TAFFLER_LOW_RISK_THRESHOLD == Rat(2, 10)
TAFFLER_MEDIUM_RISK_THRESHOLD == R(0)

\* An exception: kind names the raise site, wrap the except clauses that
\* re-raised it (innermost first), fields what the message interpolates.
Raise(kind, fields) == [ok |-> FALSE, kind |-> kind, fields |-> fields, wrap |-> <<>>]
Wrap(e, by) == [e EXCEPT !.wrap = Append(@, by)]

\* The keys calculate_altman_z_score reads with financial_data.get (lines 52-58).
AltmanKeysRead ==
    {"working_capital", "total_assets", "retained_earnings", "ebit",
     "market_value_equity", "total_liabilities", "sales"}

\* The keys calculate_taffler_score reads with financial_data.get (lines 132-137).
TafflerKeysRead ==
    {"profit_before_tax", "current_liabilities", "current_assets",
     "total_liabilities", "total_assets", "operating_income"}

\* The risk-level branch of calculate_altman_z_score (lines 76-91).
AltmanRiskLevel(z_score) ==
    IF RGt(z_score, ALTMAN_SAFE_THRESHOLD) THEN "low"
    ELSE IF RGt(z_score, ALTMAN_GRAY_THRESHOLD) THEN "medium"
    ELSE "high"

\* The medium tier given the text of the high tier.
AltmanRecommendation_medium_as_high(risk_level) ==
    IF risk_level = "low" THEN "altman_low" ELSE "altman_high"

AltmanRecommendation(risk_level) ==
    IF risk_level = "low" THEN "altman_low"
    ELSE IF risk_level = "medium" THEN "altman_medium"
    ELSE "altman_high"

calculate_altman_z_score(financial_data) ==
    LET working_capital == Get(financial_data, "working_capital", 0)
        total_assets == Get(financial_data, "total_assets", 1)
        retained_earnings == Get(financial_data, "retained_earnings", 0)
        ebit == Get(financial_data, "ebit", 0)
        market_value_equity == Get(financial_data, "market_value_equity", 0)
        total_liabilities == Get(financial_data, "total_liabilities", 1)
        sales == Get(financial_data, "sales", 0)
    IN  IF NumLe(total_assets, 0)
        THEN Wrap(Raise("total_assets_must_be_positive", <<>>), "altman")
        ELSE IF NumLe(total_liabilities, 0)
        THEN Wrap(Raise("total_liabilities_must_be_positive", <<>>), "altman")
        ELSE
        LET x1 == TrueDiv(working_capital, total_assets)
            x2 == TrueDiv(retained_earnings, total_assets)
            x3 == TrueDiv(ebit, total_assets)
            x4 == TrueDiv(market_value_equity, total_liabilities)
            x5 == TrueDiv(sales, total_assets)
        IN  CHOOSE r \in
                {[ok |-> TRUE, score |-> z_score, risk_level |-> AltmanRiskLevel(z_score),
                  recommendation |-> AltmanRecommendation(AltmanRiskLevel(z_score))] :
                    z_score \in {RAdd(RAdd(RAdd(RAdd(RMul(Rat(12, 10), x1),
                                                     RMul(Rat(14, 10), x2)),
                                                RMul(Rat(33, 10), x3)),
                                           RMul(Rat(6, 10), x4)),
                                      RMul(R(1), x5))}} : TRUE

\* The risk-level branch of calculate_taffler_score (lines 156-170).
TafflerRiskLevel(z_score) ==
    IF RGt(z_score, TAFFLER_LOW_RISK_THRESHOLD) THEN "low"
    ELSE IF RGt(z_score, TAFFLER_MEDIUM_RISK_THRESHOLD) THEN "medium"
    ELSE "high"

TafflerRecommendation(risk_level) ==
    IF risk_level = "low" THEN "taffler_low"
    ELSE IF risk_level = "medium" THEN "taffler_medium"
    ELSE "taffler_high"

calculate_taffler_score(financial_data) ==
    LET profit_before_tax == Get(financial_data, "profit_before_tax", 0)
        current_liabilities == Get(financial_data, "current_liabilities", 1)
        current_assets == Get(financial_data, "current_assets", 0)
        total_liabilities == Get(financial_data, "total_liabilities", 1)
        total_assets == Get(financial_data, "total_assets", 1)
        operating_income == Get(financial_data, "operating_income", 0)
    IN  IF NumLe(total_assets, 0)
        THEN Wrap(Raise("total_assets_must_be_positive", <<>>), "taffler")
        ELSE IF NumLe(current_liabilities, 0)
        THEN Wrap(Raise("current_liabilities_must_be_positive", <<>>), "taffler")
        ELSE IF NumLe(total_liabilities, 0)
        THEN Wrap(Raise("total_liabilities_must_be_positive", <<>>), "taffler")
        ELSE
        LET x1 == TrueDiv(profit_before_tax, current_liabilities)
            x2 == TrueDiv(current_assets, total_liabilities)
            x3 == TrueDiv(current_liabilities, total_assets)
            x4 == RMul(TrueDiv(operating_income, total_assets), R(100))
        IN  CHOOSE r \in
                {[ok |-> TRUE, score |-> z_score, risk_level |-> TafflerRiskLevel(z_score),
                  recommendation |-> TafflerRecommendation(TafflerRiskLevel(z_score))] :
                    z_score \in {RAdd(RSub(RAdd(RAdd(Rat(32, 10),
                                                     RMul(Rat(1218, 100), x1)),
                                                RMul(Rat(250, 100), x2)),
                                           RMul(Rat(1068, 100), x3)),
                                      RMul(Rat(29, 1000), x4))}} : TRUE

risk_values(level) == IF level = "low" THEN 1 ELSE IF level = "medium" THEN 2 ELSE 3

risk_names(value) == IF value = 1 THEN "low" ELSE IF value = 2 THEN "medium" ELSE "high"

\* max() replaced by min().
Max2_smaller(a, b) == IF b < a THEN b ELSE a

Max2(a, b) == IF b > a THEN b ELSE a

CombinedRecommendation(combined_risk_level) ==
    IF combined_risk_level = "low" THEN "combined_low"
    ELSE IF combined_risk_level = "medium" THEN "combined_medium"
    ELSE "combined_high"

\* The combined value taken from the Altman tier alone.
calculate_combined_risk_altman_only(altman_score, taffler_score) ==
    LET altman_risk == IF RGt(altman_score, ALTMAN_SAFE_THRESHOLD) THEN "low"
                       ELSE IF RGt(altman_score, ALTMAN_GRAY_THRESHOLD) THEN "medium"
                       ELSE "high"
        altman_value == risk_values(altman_risk)
        combined_value == Max2(altman_value, altman_value)
        combined_risk_level == risk_names(combined_value)
    IN  [combined_risk_level |-> combined_risk_level,
         combined_recommendation |-> CombinedRecommendation(combined_risk_level)]

calculate_combined_risk(altman_score, taffler_score) ==
    LET altman_risk == IF RGt(altman_score, ALTMAN_SAFE_THRESHOLD) THEN "low"
                       ELSE IF RGt(altman_score, ALTMAN_GRAY_THRESHOLD) THEN "medium"
                       ELSE "high"
        taffler_risk == IF RGt(taffler_score, TAFFLER_LOW_RISK_THRESHOLD) THEN "low"
                        ELSE IF RGt(taffler_score, TAFFLER_MEDIUM_RISK_THRESHOLD) THEN "medium"
                        ELSE "high"
        altman_value == risk_values(altman_risk)
        taffler_value == risk_values(taffler_risk)
        combined_value == Max2(altman_value, taffler_value)
        combined_risk_level == risk_names(combined_value)
    IN  [combined_risk_level |-> combined_risk_level,
         combined_recommendation |-> CombinedRecommendation(combined_risk_level)]

----------------------------------------------------------------------------
(* model.py                                                                *)

REQUIRED_FIELDS_ALTMAN ==
    <<"current_assets", "current_liabilities", "debt_capital", "liabilities">>

REQUIRED_FIELDS_TAFFLER ==
    <<"sales_profit", "short_term_liabilities", "current_assets",
      "liabilities", "long_term_liabilities", "total_assets", "sales">>

POSITIVE_FIELDS ==
    <<"current_liabilities", "liabilities", "short_term_liabilities", "total_assets">>

Range(seq) == {seq[i] : i \in 1..Len(seq)}

\* Python's order on the key strings that occur in the model (str.__lt__),
\* as the position of the key in the lexicographically ordered list.
StrOrder ==
    <<"age", "credit_amount", "credit_history_score", "current_assets",
      "current_liabilities", "debt_capital", "ebit", "employment_years",
      "has_collateral", "liabilities", "long_term_liabilities",
      "market_value_equity", "monthly_expenses", "monthly_income",
      "operating_income", "profit_before_tax", "retained_earnings", "sales",
      "sales_profit", "short_term_liabilities", "total_assets",
      "total_liabilities", "working_capital">>

StrRank(s) == CHOOSE i \in 1..Len(StrOrder) : StrOrder[i] = s

\* sorted(S) for a set of keys: repeatedly take the least remaining key.
RECURSIVE sorted(_)
sorted(S) ==
    IF S = {} THEN <<>>
    ELSE LET least == CHOOSE x \in S : \A y \in S : StrRank(x) <= StrRank(y)
         IN  <<least>> \o sorted(S \ {least})

\* The least element of a non-empty set of indices, or 0 for the empty set:
\* the iteration at which a for loop with a return stops.
FirstOf(indices) ==
    IF indices = {} THEN 0
    ELSE CHOOSE i \in indices : \A j \in indices : i <= j

None == [kind |-> "None", fields |-> <<>>]

\* The positivity loop run before the missing-field check.
validate_financial_data_positive_first(financial_data) ==
    LET all_required == Range(REQUIRED_FIELDS_ALTMAN \o REQUIRED_FIELDS_TAFFLER)
        missing_fields == all_required \ DOMAIN financial_data
        bad == FirstOf({i \in 1..Len(POSITIVE_FIELDS) :
                           /\ POSITIVE_FIELDS[i] \in DOMAIN financial_data
                           /\ NumLe(financial_data[POSITIVE_FIELDS[i]], 0)})
    IN  IF bad # 0
        THEN [is_valid |-> FALSE,
              error_message |-> [kind |-> "field_must_be_positive",
                                 fields |-> <<POSITIVE_FIELDS[bad]>>]]
        ELSE IF missing_fields # {}
        THEN [is_valid |-> FALSE,
              error_message |-> [kind |-> "missing_required_fields",
                                 fields |-> sorted(missing_fields)]]
        ELSE [is_valid |-> TRUE, error_message |-> None]

\* The positivity test written < 0 instead of <= 0.
validate_financial_data_zero_allowed(financial_data) ==
    LET all_required == Range(REQUIRED_FIELDS_ALTMAN \o REQUIRED_FIELDS_TAFFLER)
        missing_fields == all_required \ DOMAIN financial_data
        bad == FirstOf({i \in 1..Len(POSITIVE_FIELDS) :
                           /\ POSITIVE_FIELDS[i] \in DOMAIN financial_data
                           /\ NumLt(financial_data[POSITIVE_FIELDS[i]], 0)})
    IN  IF missing_fields # {}
        THEN [is_valid |-> FALSE,
              error_message |-> [kind |-> "missing_required_fields",
                                 fields |-> sorted(missing_fields)]]
        ELSE IF bad # 0
        THEN [is_valid |-> FALSE,
              error_message |-> [kind |-> "field_must_be_positive",
                                 fields |-> <<POSITIVE_FIELDS[bad]>>]]
        ELSE [is_valid |-> TRUE, error_message |-> None]

validate_financial_data(financial_data) ==
    LET all_required == Range(REQUIRED_FIELDS_ALTMAN \o REQUIRED_FIELDS_TAFFLER)
        missing_fields == all_required \ DOMAIN financial_data
        bad == FirstOf({i \in 1..Len(POSITIVE_FIELDS) :
                           /\ POSITIVE_FIELDS[i] \in DOMAIN financial_data
                           /\ NumLe(financial_data[POSITIVE_FIELDS[i]], 0)})
    IN  IF missing_fields # {}
        THEN [is_valid |-> FALSE,
              error_message |-> [kind |-> "missing_required_fields",
                                 fields |-> sorted(missing_fields)]]
        ELSE IF bad # 0
        THEN [is_valid |-> FALSE,
              error_message |-> [kind |-> "field_must_be_positive",
                                 fields |-> <<POSITIVE_FIELDS[bad]>>]]
        ELSE [is_valid |-> TRUE, error_message |-> None]

Exclude(request, keys) == [k \in DOMAIN request \ keys |-> request[k]]

\* The whole dictionary handed on instead of the listed keys.
Project_whole(financial_data, keys) == financial_data

\* {key: financial_data[key] for key in keys}
Project(financial_data, keys) == [key \in Range(keys) |-> financial_data[key]]

\* The dictionary returned once the scores are computed (lines 99-110),
\* with the unrounded scores, kept for the checks only.
BankruptcyResults(a, t, c) ==
    [ok |-> TRUE,
     altman_z_score |-> Round(a.score, 4),
     altman_risk_level |-> a.risk_level,
     altman_recommendation |-> a.recommendation,
     taffler_z_score |-> Round(t.score, 4),
     taffler_risk_level |-> t.risk_level,
     taffler_recommendation |-> t.recommendation,
     combined_risk_level |-> c.combined_risk_level,
     combined_recommendation |-> c.combined_recommendation,
     altman_raw |-> a.score,
     taffler_raw |-> t.score]

\* The two combined_* entries left out of the returned dictionary.
calculate_bankruptcy_risk_no_combined(financial_data) ==
    LET v == validate_financial_data(financial_data)
    IN  IF ~v.is_valid
        THEN [ret |-> Raise(v.error_message.kind, v.error_message.fields),
              calls |-> <<"validate_financial_data">>]
        ELSE
        CHOOSE out \in
            {IF ~a.ok
             THEN [ret |-> Wrap(a, "calculate_bankruptcy_risk"),
                   calls |-> <<"validate_financial_data", "calculate_altman_z_score">>]
             ELSE
             CHOOSE o \in
                 {IF ~t.ok
                  THEN [ret |-> Wrap(t, "calculate_bankruptcy_risk"),
                        calls |-> <<"validate_financial_data", "calculate_altman_z_score",
                                    "calculate_taffler_score">>]
                  ELSE [ret |-> Exclude(BankruptcyResults(a, t, calculate_combined_risk(a.score, t.score)),
                                       {"combined_risk_level", "combined_recommendation"}),
                        calls |-> <<"validate_financial_data", "calculate_altman_z_score",
                                    "calculate_taffler_score", "calculate_combined_risk">>] :
                     t \in {calculate_taffler_score(
                               Project(financial_data, REQUIRED_FIELDS_TAFFLER))}} : TRUE :
                a \in {calculate_altman_z_score(
                          Project(financial_data, REQUIRED_FIELDS_ALTMAN))}} : TRUE

\* ret is what the call returns or raises, calls the functions it entered,
\* in order.
calculate_bankruptcy_risk(financial_data) ==
    LET v == validate_financial_data(financial_data)
    IN  IF ~v.is_valid
        THEN [ret |-> Raise(v.error_message.kind, v.error_message.fields),
              calls |-> <<"validate_financial_data">>]
        ELSE
        CHOOSE out \in
            {IF ~a.ok
             THEN [ret |-> Wrap(a, "calculate_bankruptcy_risk"),
                   calls |-> <<"validate_financial_data", "calculate_altman_z_score">>]
             ELSE
             CHOOSE o \in
                 {IF ~t.ok
                  THEN [ret |-> Wrap(t, "calculate_bankruptcy_risk"),
                        calls |-> <<"validate_financial_data", "calculate_altman_z_score",
                                    "calculate_taffler_score">>]
                  ELSE [ret |-> BankruptcyResults(a, t, calculate_combined_risk(a.score, t.score)),
                        calls |-> <<"validate_financial_data", "calculate_altman_z_score",
                                    "calculate_taffler_score", "calculate_combined_risk">>] :
                     t \in {calculate_taffler_score(
                               Project(financial_data, REQUIRED_FIELDS_TAFFLER))}} : TRUE :
                a \in {calculate_altman_z_score(
                          Project(financial_data, REQUIRED_FIELDS_ALTMAN))}} : TRUE

----------------------------------------------------------------------------
(* Calls of the orchestrated company path.                                 *)

MaxPositive == 2
MaxCurrentAssets == 3
MaxAmount == 1

\* Keys no orchestrated function reads by name: one that
\* calculate_altman_z_score reads, one that calculate_taffler_score reads,
\* one that nothing reads.
ExtraKeys == {"working_capital", "profit_before_tax", "company_name"}

CompanyFields == Range(REQUIRED_FIELDS_ALTMAN \o REQUIRED_FIELDS_TAFFLER)

\* Complete requests: the four positivity-constrained fields range over
\* -1..MaxPositive, current_assets over 0..MaxCurrentAssets, the other
\* fields over 0..MaxAmount.
FullCompanyInputs ==
    [current_assets : 0..MaxCurrentAssets, current_liabilities : (-1)..MaxPositive,
     debt_capital : 0..MaxAmount, liabilities : (-1)..MaxPositive,
     sales_profit : 0..MaxAmount, short_term_liabilities : (-1)..MaxPositive,
     long_term_liabilities : 0..MaxAmount, total_assets : (-1)..MaxPositive,
     sales : 0..MaxAmount]

\* Requests with any set of keys absent, the present positivity-constrained
\* fields being negative, zero or positive.
PartialCompanyInputs ==
    LET base == [current_assets : {1}, current_liabilities : {-1, 0, 1},
                 debt_capital : {1}, liabilities : {-1, 0, 1},
                 sales_profit : {1}, short_term_liabilities : {-1, 0, 1},
                 long_term_liabilities : {1}, total_assets : {-1, 0, 1},
                 sales : {1}]
    IN  {[k \in S |-> fd[k]] : fd \in base, S \in SUBSET CompanyFields}

CompanyInputs == FullCompanyInputs \cup PartialCompanyInputs

NoResult == [ok |-> FALSE, kind |-> "no_call", fields |-> <<>>, wrap |-> <<>>]

InitCompany ==
    /\ op = "none"
    /\ input \in CompanyInputs
    /\ result = NoResult
    /\ trace = <<>>
    /\ history = <<>>
    /\ db = EmptyDatabase
    /\ inflight = <<>>

ValidateFinancialData ==
    /\ op = "none"
    /\ DOMAIN input \subseteq CompanyFields \cup ExtraKeys
    /\ op' = "validate_financial_data"
    /\ result' = validate_financial_data(input)
    /\ trace' = <<"validate_financial_data">>
    /\ UNCHANGED <<input, history, db, inflight>>

CalculateBankruptcyRisk ==
    /\ op = "none"
    /\ DOMAIN input \subseteq CompanyFields \cup ExtraKeys
    /\ op' = "calculate_bankruptcy_risk"
    /\ \E r \in {calculate_bankruptcy_risk(input)} :
           /\ result' = r.ret
           /\ trace' = r.calls
    /\ UNCHANGED <<input, history, db, inflight>>

NextCompany == ValidateFinancialData \/ CalculateBankruptcyRisk

SpecCompany == InitCompany /\ [][NextCompany]_vars

----------------------------------------------------------------------------
(* individual_models.py                                                    *)

INDIVIDUAL_LOW_RISK_THRESHOLD == 700
INDIVIDUAL_MEDIUM_RISK_THRESHOLD == 500

\* The two comparisons written >= instead of >.
IndividualRiskLevel_inclusive(credit_score) ==
    IF RLe(R(INDIVIDUAL_LOW_RISK_THRESHOLD), credit_score) THEN "low"
    ELSE IF RLe(R(INDIVIDUAL_MEDIUM_RISK_THRESHOLD), credit_score) THEN "medium"
    ELSE "high"

\* The keys calculate_individual_credit_score reads with financial_data.get
\* (lines 52-58).
IndividualKeysRead ==
    {"monthly_income", "monthly_expenses", "credit_amount", "credit_history_score",
     "has_collateral", "employment_years", "age"}

\* The risk-level branch of calculate_individual_credit_score (lines 101-119).
IndividualRiskLevel(credit_score) ==
    IF RGt(credit_score, R(INDIVIDUAL_LOW_RISK_THRESHOLD)) THEN "low"
    ELSE IF RGt(credit_score, R(INDIVIDUAL_MEDIUM_RISK_THRESHOLD)) THEN "medium"
    ELSE "high"

IndividualRecommendation(risk_level) ==
    IF risk_level = "low" THEN "individual_low"
    ELSE IF risk_level = "medium" THEN "individual_medium"
    ELSE "individual_high"

\* The lower clamp left out.
ClampScore_no_floor(credit_score) == RMin(R(850), credit_score)

\* credit_score = max(300, min(850, credit_score))
ClampScore(credit_score) == RMax(R(300), RMin(R(850), credit_score))

\* income_score (lines 71, 81)
IncomeScore(monthly_income, monthly_expenses) ==
    LET income_to_expense_ratio == RMin(TrueDiv(monthly_income, monthly_expenses), R(3))
    IN  RMul(income_to_expense_ratio, R(200))

\* The credit history taken as a probability of default.
HistoryScore_inverted(credit_history_score) == Float(Times(Minus(1, credit_history_score), 150))

\* history_score (line 82)
HistoryScore(credit_history_score) == Float(Times(credit_history_score, 150))

\* collateral_score (line 83)
CollateralScore(has_collateral) == Float(Times(has_collateral, 100))

\* employment_years used without the cap of 20.
EmploymentScore_uncapped(employment_years0) == TrueDiv(Times(employment_years0, 50), 20)

\* employment_score (lines 77, 84)
EmploymentScore(employment_years0) ==
    LET employment_years == IF NumLt(20, employment_years0) THEN 20 ELSE employment_years0
    IN  TrueDiv(Times(employment_years, 50), 20)

\* age_penalty (line 85)
AgePenalty(age) == RMul(TrueDiv(age, 10), R(20))

\* debt_penalty (lines 74, 86)
DebtPenalty(credit_amount, monthly_income) ==
    LET debt_to_income_ratio ==
            RMin(IF NumLt(0, monthly_income) THEN TrueDiv(credit_amount, monthly_income)
                 ELSE R(10),
                 R(10))
    IN  RMul(debt_to_income_ratio, R(100))

\* The age penalty subtracted without the factor 20.
UnclampedScore_age_unscaled(monthly_income, monthly_expenses, credit_amount, credit_history_score, has_collateral, employment_years0, age) ==
    RSub(RSub(RAdd(RAdd(RAdd(RAdd(R(300), IncomeScore(monthly_income, monthly_expenses)), HistoryScore(credit_history_score)), CollateralScore(has_collateral)), EmploymentScore(employment_years0)), TrueDiv(age, 10)), DebtPenalty(credit_amount, monthly_income))

\* The score of lines 70-96, before it is clamped.
UnclampedScore(monthly_income, monthly_expenses, credit_amount, credit_history_score, has_collateral, employment_years0, age) ==
    LET base_score == R(300)
        income_score == IncomeScore(monthly_income, monthly_expenses)
        history_score == HistoryScore(credit_history_score)
        collateral_score == CollateralScore(has_collateral)
        employment_score == EmploymentScore(employment_years0)
        age_penalty == AgePenalty(age)
        debt_penalty == DebtPenalty(credit_amount, monthly_income)
    IN  RSub(RSub(RAdd(RAdd(RAdd(RAdd(base_score, income_score), history_score),
                            collateral_score),
                       employment_score),
                  age_penalty),
             debt_penalty)

calculate_individual_credit_score(financial_data) ==
    LET monthly_income == Get(financial_data, "monthly_income", 0)
        monthly_expenses == Get(financial_data, "monthly_expenses", 1)
        credit_amount == Get(financial_data, "credit_amount", 0)
        credit_history_score == Get(financial_data, "credit_history_score", 0)
        has_collateral == Get(financial_data, "has_collateral", 0)
        employment_years == Get(financial_data, "employment_years", 0)
        age == Get(financial_data, "age", 30)
    IN  IF NumLe(monthly_income, 0)
        THEN Wrap(Raise("monthly_income_must_be_positive", <<>>), "individual")
        ELSE IF NumLe(monthly_expenses, 0)
        THEN Wrap(Raise("monthly_expenses_must_be_positive", <<>>), "individual")
        ELSE IF NumLt(credit_history_score, 0) \/ NumLt(1, credit_history_score)
        THEN Wrap(Raise("credit_history_score_must_be_0_to_1", <<>>), "individual")
        ELSE IF NumLt(age, 18) \/ NumLt(100, age)
        THEN Wrap(Raise("age_must_be_18_to_100", <<>>), "individual")
        ELSE
        CHOOSE r \in
            {[ok |-> TRUE, score |-> credit_score,
              risk_level |-> IndividualRiskLevel(credit_score),
              recommendation |-> IndividualRecommendation(IndividualRiskLevel(credit_score))] :
                credit_score \in
                    {ClampScore(UnclampedScore(monthly_income, monthly_expenses,
                                               credit_amount, credit_history_score,
                                               has_collateral, employment_years, age))}} : TRUE

\* model.py, calculate_individual_risk
\* The tier and the text taken from the rounded score.
calculate_individual_risk_tier_of_rounded(individual_data) ==
    CHOOSE out \in
        {IF ~r.ok
         THEN Wrap(r, "calculate_individual_risk")
         ELSE CHOOSE o \in
                  {[ok |-> TRUE,
                    credit_score |-> rounded,
                    risk_level |-> IndividualRiskLevel(rounded),
                    recommendation |-> IndividualRecommendation(IndividualRiskLevel(rounded))] :
                      rounded \in {Round(r.score, 2)}} : TRUE :
            r \in {calculate_individual_credit_score(individual_data)}} : TRUE

calculate_individual_risk(individual_data) ==
    CHOOSE out \in
        {IF ~r.ok
         THEN Wrap(r, "calculate_individual_risk")
         ELSE [ok |-> TRUE,
               credit_score |-> Round(r.score, 2),
               risk_level |-> r.risk_level,
               recommendation |-> r.recommendation] :
            r \in {calculate_individual_credit_score(individual_data)}} : TRUE

----------------------------------------------------------------------------
(* Direct calls of the two company formula functions.                      *)

MaxNumerator == 1
MaxDenominator == 2

PartialDicts(full, keys) == {[k \in S |-> fd[k]] : fd \in full, S \in SUBSET keys}

\* Dictionaries over the keys calculate_altman_z_score reads, any of them
\* absent: numerators in -1..MaxNumerator, denominators in 0..MaxDenominator.
AltmanInputs ==
    PartialDicts([working_capital : (-1)..MaxNumerator,
                  total_assets : 0..MaxDenominator,
                  retained_earnings : (-1)..MaxNumerator,
                  ebit : (-1)..MaxNumerator,
                  market_value_equity : (-1)..MaxNumerator,
                  total_liabilities : 0..MaxDenominator,
                  sales : (-1)..MaxNumerator],
                 {"working_capital", "total_assets", "retained_earnings", "ebit",
                  "market_value_equity", "total_liabilities", "sales"})

\* Dictionaries over the keys calculate_taffler_score reads, any of them absent.
TafflerInputs ==
    PartialDicts([profit_before_tax : (-1)..MaxNumerator,
                  current_liabilities : 0..MaxDenominator,
                  current_assets : (-1)..MaxNumerator,
                  total_liabilities : 0..MaxDenominator,
                  total_assets : 0..MaxDenominator,
                  operating_income : (-1)..MaxNumerator],
                 {"profit_before_tax", "current_liabilities", "current_assets",
                  "total_liabilities", "total_assets", "operating_income"})

\* Dictionaries whose score lies next to a threshold only because the
\* arithmetic is that of doubles: an Altman score of 1.8100000000000005
\* (gray zone from 1.81), Taffler scores of 1.7763568394002505e-15 (on the
\* real line 0) and 0.20000000000000107 (on the real line 0.2).
ThresholdFormulaInputs ==
    {[working_capital |-> 0, total_assets |-> 2, retained_earnings |-> 0, ebit |-> 5,
      market_value_equity |-> 1, total_liabilities |-> 10, sales |-> -13],
     [profit_before_tax |-> -1, current_liabilities |-> 3, current_assets |-> 12,
      total_liabilities |-> 1, total_assets |-> 1, operating_income |-> 1],
     [profit_before_tax |-> -1, current_liabilities |-> 3, current_assets |-> 72,
      total_liabilities |-> 5, total_assets |-> 1, operating_income |-> -1]}

\* The dictionaries either formula function is called with: over the keys
\* it reads, and over the keys of the request (REQUIRED_FIELDS_*).
FormulaInputs ==
    AltmanInputs \cup TafflerInputs \cup PartialCompanyInputs \cup ThresholdFormulaInputs

InitFormula ==
    /\ op = "none"
    /\ input \in FormulaInputs
    /\ result = NoResult
    /\ trace = <<>>
    /\ history = <<>>
    /\ db = EmptyDatabase
    /\ inflight = <<>>

CalculateAltmanZScore ==
    /\ op = "none"
    /\ DOMAIN input \subseteq AltmanKeysRead \cup CompanyFields
    /\ op' = "calculate_altman_z_score"
    /\ result' = calculate_altman_z_score(input)
    /\ trace' = <<"calculate_altman_z_score">>
    /\ UNCHANGED <<input, history, db, inflight>>

CalculateTafflerScore ==
    /\ op = "none"
    /\ DOMAIN input \subseteq TafflerKeysRead \cup CompanyFields
    /\ op' = "calculate_taffler_score"
    /\ result' = calculate_taffler_score(input)
    /\ trace' = <<"calculate_taffler_score">>
    /\ UNCHANGED <<input, history, db, inflight>>

NextFormula == CalculateAltmanZScore \/ CalculateTafflerScore

SpecFormula == InitFormula /\ [][NextFormula]_vars

----------------------------------------------------------------------------
(* Direct calls of calculate_combined_risk, one after another; history     *)
(* holds the call before the current one.                                   *)

Spread == 1

\* Scores at each threshold of a model and Spread hundredths on either side.
Around(thresholds) ==
    {RAdd(t, Rat(k, 100)) : t \in thresholds, k \in (-Spread)..Spread}

AltmanScores == Around({ALTMAN_SAFE_THRESHOLD, ALTMAN_GRAY_THRESHOLD})

TafflerScores == Around({TAFFLER_LOW_RISK_THRESHOLD, TAFFLER_MEDIUM_RISK_THRESHOLD})

InitCombined ==
    /\ op = "none"
    /\ input = <<>>
    /\ result = NoResult
    /\ trace = <<>>
    /\ history = <<>>
    /\ db = EmptyDatabase
    /\ inflight = <<>>

CalculateCombinedRisk ==
    \E altman_score \in AltmanScores, taffler_score \in TafflerScores :
        /\ op' = "calculate_combined_risk"
        /\ input' = [altman_score |-> altman_score, taffler_score |-> taffler_score]
        /\ result' = calculate_combined_risk(altman_score, taffler_score)
        /\ trace' = <<"calculate_combined_risk">>
        /\ history' = IF op = "none" THEN <<>>
                      ELSE <<[input |-> input, result |-> result]>>
        /\ UNCHANGED <<db, inflight>>

NextCombined == CalculateCombinedRisk

SpecCombined == InitCombined /\ [][NextCombined]_vars

----------------------------------------------------------------------------
(* Direct calls of the individual scoring function and of its wrapper.     *)

MaxIncome == 4

\* income=1, expenses=1000000, age=100, credit_amount=10000000, other keys absent
ExtremeIndividual ==
    [k \in {"monthly_income", "monthly_expenses", "age", "credit_amount"} |->
        IF k = "monthly_income" THEN 1
        ELSE IF k = "monthly_expenses" THEN 1000000
        ELSE IF k = "age" THEN 100
        ELSE 10000000]

\* Dictionaries with any set of the seven keys absent.
PartialIndividualInputs ==
    PartialDicts([monthly_income : {1, 3}, monthly_expenses : {1, 2},
                  credit_amount : {2}, credit_history_score : {1},
                  has_collateral : {1}, employment_years : {20},
                  age : {25, 100}],
                 {"monthly_income", "monthly_expenses", "credit_amount",
                  "credit_history_score", "has_collateral", "employment_years", "age"})

\* Inputs whose score lies next to a threshold or a rounding tie only
\* because the arithmetic is that of doubles: scores 500.0000000000001 and
\* 500.00000000000006 (on the real line 500, the medium threshold) and
\* 317.275 (the double below the tie, reported as 317.27).
ThresholdIndividualInputs ==
    {[monthly_income |-> 3, monthly_expenses |-> 36, credit_amount |-> 2,
      credit_history_score |-> 1, has_collateral |-> 1, employment_years |-> 20,
      age |-> 25],
     [monthly_income |-> 15, monthly_expenses |-> 9, credit_amount |-> 11,
      credit_history_score |-> 0, has_collateral |-> 0, employment_years |-> 0,
      age |-> 30],
     [monthly_income |-> 32, monthly_expenses |-> 1000, credit_amount |-> 1,
      credit_history_score |-> 0, has_collateral |-> 0, employment_years |-> 20,
      age |-> 18]}

IndividualInputs ==
    [monthly_income : 0..MaxIncome,
     monthly_expenses : 0..MaxIncome,
     credit_amount : {0, 2, 40},
     credit_history_score : {-1, 0, 1, 2},
     has_collateral : {0, 1},
     employment_years : {0, 20, 21},
     age : {17, 18, 25, 100, 101}]
    \cup {ExtremeIndividual}
    \cup PartialIndividualInputs
    \cup ThresholdIndividualInputs

InitIndividual ==
    /\ op = "none"
    /\ input \in IndividualInputs
    /\ result = NoResult
    /\ trace = <<>>
    /\ history = <<>>
    /\ db = EmptyDatabase
    /\ inflight = <<>>

CalculateIndividualCreditScore ==
    /\ op = "none"
    /\ DOMAIN input \subseteq IndividualKeysRead \cup ExtraKeys
    /\ op' = "calculate_individual_credit_score"
    /\ result' = calculate_individual_credit_score(input)
    /\ trace' = <<"calculate_individual_credit_score">>
    /\ UNCHANGED <<input, history, db, inflight>>

CalculateIndividualRisk ==
    /\ op = "none"
    /\ DOMAIN input \subseteq IndividualKeysRead \cup ExtraKeys
    /\ op' = "calculate_individual_risk"
    /\ result' = calculate_individual_risk(input)
    /\ trace' = <<"calculate_individual_risk", "calculate_individual_credit_score">>
    /\ UNCHANGED <<input, history, db, inflight>>

NextIndividual == CalculateIndividualCreditScore \/ CalculateIndividualRisk

SpecIndividual == InitIndividual /\ [][NextIndividual]_vars

----------------------------------------------------------------------------
(* Properties of the orchestrated company path (SpecCompany).              *)

AllRequired == Range(REQUIRED_FIELDS_ALTMAN \o REQUIRED_FIELDS_TAFFLER)

Accepted(fd) ==
    /\ AllRequired \subseteq DOMAIN fd
    /\ \A f \in Range(POSITIVE_FIELDS) : fd[f] > 0

\* C1: for every input that validation accepts, the model A score that
\* calculate_bankruptcy_risk computes is, before rounding,
\* -0.3877 - 1.0736*(current_assets/current_liabilities)
\*         + 0.0579*(debt_capital/liabilities).
C1_AltmanScoreIsTwoFactorFormula ==
    (op = "calculate_bankruptcy_risk" /\ Accepted(input)) =>
        /\ result.ok
        /\ REq(result.altman_raw,
               RAdd(RSub(Rat(-3877, 10000),
                         RMul(Rat(10736, 10000),
                              Rat(input["current_assets"], input["current_liabilities"]))),
                    RMul(Rat(579, 10000),
                         Rat(input["debt_capital"], input["liabilities"]))))

\* C2: for every input that validation accepts, the model B score that
\* calculate_bankruptcy_risk computes is, before rounding,
\* 0.53*(sales_profit/short_term_liabilities) + 0.13*(current_assets/liabilities)
\* + 0.18*(long_term_liabilities/total_assets) + 0.16*(sales/total_assets).
C2_TafflerScoreIsFourRatioFormula ==
    (op = "calculate_bankruptcy_risk" /\ Accepted(input)) =>
        /\ result.ok
        /\ REq(result.taffler_raw,
               RAdd(RAdd(RAdd(RMul(Rat(53, 100),
                                   Rat(input["sales_profit"],
                                       input["short_term_liabilities"])),
                              RMul(Rat(13, 100),
                                   Rat(input["current_assets"], input["liabilities"]))),
                         RMul(Rat(18, 100),
                              Rat(input["long_term_liabilities"], input["total_assets"]))),
                    RMul(Rat(16, 100),
                         Rat(input["sales"], input["total_assets"]))))

Severity(level) == IF level = "low" THEN 1 ELSE IF level = "medium" THEN 2 ELSE 3

\* C7: in a result of calculate_bankruptcy_risk the combined risk level is
\* the more severe of the result's own altman_risk_level and
\* taffler_risk_level, and the combined recommendation is the one fixed
\* text that belongs to the combined level.
C7_CombinedIsWorstOfTwo ==
    (op = "calculate_bankruptcy_risk" /\ result.ok) =>
        /\ result.combined_risk_level \in {result.altman_risk_level, result.taffler_risk_level}
        /\ Severity(result.combined_risk_level) >= Severity(result.altman_risk_level)
        /\ Severity(result.combined_risk_level) >= Severity(result.taffler_risk_level)
        /\ result.combined_recommendation \in {"combined_low", "combined_medium", "combined_high"}
        /\ (result.combined_risk_level = "low") = (result.combined_recommendation = "combined_low")
        /\ (result.combined_risk_level = "medium") = (result.combined_recommendation = "combined_medium")
        /\ (result.combined_risk_level = "high") = (result.combined_recommendation = "combined_high")

\* A result whose two model tiers differ and whose combined tier is the worse.
C7_Witness ==
    /\ op = "calculate_bankruptcy_risk"
    /\ result.ok
    /\ result.taffler_risk_level = "low"
    /\ result.altman_risk_level = "high"
    /\ result.combined_risk_level = "high"
    /\ result.combined_recommendation = "combined_high"

IsAscending(fields) ==
    \A i, j \in 1..Len(fields) : i < j => StrRank(fields[i]) < StrRank(fields[j])

\* C9: when required fields are absent, validate_financial_data returns one
\* failure whose message lists exactly the absent required fields, each
\* once, in sorted order, whatever the values of the fields present.
C9_MissingFieldsAllListedSorted ==
    (op = "validate_financial_data" /\ AllRequired \ DOMAIN input # {}) =>
        /\ result.is_valid = FALSE
        /\ result.error_message.kind = "missing_required_fields"
        /\ Range(result.error_message.fields) = AllRequired \ DOMAIN input
        /\ Len(result.error_message.fields) = Cardinality(AllRequired \ DOMAIN input)
        /\ IsAscending(result.error_message.fields)

\* Several fields absent while a present positivity-constrained field is
\* not positive: the absent fields are what is reported.
C9_Witness ==
    /\ op = "validate_financial_data"
    /\ Cardinality(AllRequired \ DOMAIN input) >= 2
    /\ \E f \in Range(POSITIVE_FIELDS) \cap DOMAIN input : input[f] <= 0
    /\ result.error_message.kind = "missing_required_fields"
    /\ Len(result.error_message.fields) >= 2

\* C10: with all required fields present and some positivity-constrained
\* field <= 0, calculate_bankruptcy_risk raises the validation failure that
\* names the first such field of POSITIVE_FIELDS, and no score formula has
\* been entered.
C10_NonPositiveRejectedBeforeFormulas ==
    (/\ op = "calculate_bankruptcy_risk"
     /\ AllRequired \subseteq DOMAIN input
     /\ \E f \in Range(POSITIVE_FIELDS) : input[f] <= 0) =>
        /\ result.ok = FALSE
        /\ result.kind = "field_must_be_positive"
        /\ result.wrap = <<>>
        /\ \E i \in 1..Len(POSITIVE_FIELDS) :
              /\ result.fields = <<POSITIVE_FIELDS[i]>>
              /\ input[POSITIVE_FIELDS[i]] <= 0
              /\ \A j \in 1..(i - 1) : input[POSITIVE_FIELDS[j]] > 0
        /\ trace = <<"validate_financial_data">>

\* Two fields violate positivity, one of them zero; the earlier one in
\* POSITIVE_FIELDS is the one named.
C10_Witness ==
    /\ op = "calculate_bankruptcy_risk"
    /\ AllRequired \subseteq DOMAIN input
    /\ input["current_liabilities"] > 0
    /\ input["liabilities"] = 0
    /\ input["total_assets"] <= 0
    /\ result.ok = FALSE
    /\ result.fields = <<"liabilities">>
    /\ trace = <<"validate_financial_data">>

\* C14: for every input that passes validation, each key the two formula
\* functions read is present in the dictionary calculate_bankruptcy_risk
\* passes to them, so no .get default is used on the orchestrated path.
C14_NoDefaultUsedAfterValidation ==
    (op = "calculate_bankruptcy_risk" /\ Accepted(input)) =>
        /\ result.ok
        /\ AltmanKeysRead \subseteq DOMAIN Project(input, REQUIRED_FIELDS_ALTMAN)
        /\ TafflerKeysRead \subseteq DOMAIN Project(input, REQUIRED_FIELDS_TAFFLER)

ResultFields ==
    {"altman_z_score", "altman_risk_level", "altman_recommendation",
     "taffler_z_score", "taffler_risk_level", "taffler_recommendation",
     "combined_risk_level", "combined_recommendation"}

\* C11: calculate_bankruptcy_risk either returns a result with all eight
\* fields, having run validation, both formulas and the combiner, or raises
\* one error that carries none of them; when the last function entered is
\* the model A formula, the model B formula has not been entered.
C11_AllEightFieldsOrOneError ==
    (op = "calculate_bankruptcy_risk") =>
        IF result.ok
        THEN /\ ResultFields \subseteq DOMAIN result
             /\ trace = <<"validate_financial_data", "calculate_altman_z_score",
                          "calculate_taffler_score", "calculate_combined_risk">>
        ELSE /\ ResultFields \cap DOMAIN result = {}
             /\ result.kind # "no_call"
             /\ Len(trace) < 4
             /\ (trace[Len(trace)] = "calculate_altman_z_score" =>
                    "calculate_taffler_score" \notin Range(trace))

\* A request that fails validation has produced an error and no field, and
\* neither formula was entered.
C11_Witness ==
    /\ op = "calculate_bankruptcy_risk"
    /\ AllRequired \subseteq DOMAIN input
    /\ ~result.ok
    /\ ResultFields \cap DOMAIN result = {}
    /\ trace = <<"validate_financial_data">>

----------------------------------------------------------------------------
(* Properties of the formula functions called directly (SpecFormula).      *)

\* C3: calculate_altman_z_score classifies low exactly when score > 0.0,
\* medium exactly when -0.5 < score <= 0.0, high exactly when score <= -0.5.
C3_AltmanTiersAtZeroAndMinusHalf ==
    (op = "calculate_altman_z_score" /\ result.ok) =>
        result.risk_level =
            (IF RGt(result.score, R(0)) THEN "low"
             ELSE IF RGt(result.score, Rat(-5, 10)) THEN "medium"
             ELSE "high")

\* C4: calculate_taffler_score classifies low exactly when score > 0.5,
\* medium exactly when 0.3 < score <= 0.5, high exactly when score <= 0.3.
C4_TafflerTiersAtHalfAndThreeTenths ==
    (op = "calculate_taffler_score" /\ result.ok) =>
        result.risk_level =
            (IF RGt(result.score, Rat(5, 10)) THEN "low"
             ELSE IF RGt(result.score, Rat(3, 10)) THEN "medium"
             ELSE "high")

\* C13: called directly, the model A function raises when
\* current_liabilities <= 0 or liabilities <= 0, and the model B function
\* raises when short_term_liabilities <= 0, liabilities <= 0 or
\* total_assets <= 0; neither returns a score for such an input.
C13_NonPositiveDenominatorRaises ==
    /\ (/\ op = "calculate_altman_z_score"
        /\ \E f \in {"current_liabilities", "liabilities"} \cap DOMAIN input : input[f] <= 0)
       => ~result.ok
    /\ (/\ op = "calculate_taffler_score"
        /\ \E f \in {"short_term_liabilities", "liabilities", "total_assets"} \cap DOMAIN input :
              input[f] <= 0)
       => ~result.ok

----------------------------------------------------------------------------
(* Properties of calculate_combined_risk called directly (SpecCombined).   *)

TierPair(args) ==
    <<AltmanRiskLevel(args.altman_score), TafflerRiskLevel(args.taffler_score)>>

\* C8: two calls of calculate_combined_risk whose (model A tier, model B
\* tier) pairs are (t1, t2) and (t2, t1) return the same combined tier and
\* the same recommendation.
C8_CombinerCommutesInTiers ==
    (op = "calculate_combined_risk" /\ history # <<>>) =>
        ((/\ TierPair(history[1].input)[1] = TierPair(input)[2]
          /\ TierPair(history[1].input)[2] = TierPair(input)[1]) =>
            result = history[1].result)

\* Two consecutive calls with different, swapped tiers and equal results.
C8_Witness ==
    /\ op = "calculate_combined_risk"
    /\ history # <<>>
    /\ TierPair(history[1].input) = <<"low", "high">>
    /\ TierPair(input) = <<"high", "low">>
    /\ result = history[1].result
    /\ result.combined_risk_level = "high"

----------------------------------------------------------------------------
(* Properties of the individual scoring function (SpecIndividual).         *)

\* C5: calculate_individual_credit_score classifies the clamped score low
\* exactly when it is > 700, medium exactly when 500 < score <= 700, high
\* exactly when score <= 500.
C5_IndividualTiers ==
    (op = "calculate_individual_credit_score" /\ result.ok) =>
        /\ (result.risk_level = "low") = RGt(result.score, R(700))
        /\ (result.risk_level = "medium") =
              (RGt(result.score, R(500)) /\ RLe(result.score, R(700)))
        /\ (result.risk_level = "high") = RLe(result.score, R(500))

\* A score of exactly 700 is classified medium.
C5_Witness ==
    /\ op = "calculate_individual_credit_score"
    /\ result.ok
    /\ result.score = R(700)
    /\ result.risk_level = "medium"

\* C6: whenever calculate_individual_credit_score returns, the score lies
\* in [300, 850]; for income=1, expenses=1000000, age=100,
\* credit_amount=10000000 it returns exactly 300.
C6_ScoreWithinRange ==
    (op = "calculate_individual_credit_score") =>
        /\ result.ok =>
              (RLe(R(300), result.score) /\ RLe(result.score, R(850)))
        /\ input = ExtremeIndividual => (result.ok /\ result.score = R(300))

\* The extreme input has been scored and clamped to 300.
C6_Witness ==
    /\ op = "calculate_individual_credit_score"
    /\ input = ExtremeIndividual
    /\ result.ok
    /\ result.score = R(300)
    /\ RLt(UnclampedScore(1, 1000000, 10000000, 0, 0, 0, 100), R(300))

----------------------------------------------------------------------------
(* Direct calls of all three formula functions (SpecDirect).               *)

InitDirect ==
    /\ op = "none"
    /\ input \in FormulaInputs \cup IndividualInputs
    /\ result = NoResult
    /\ trace = <<>>
    /\ history = <<>>
    /\ db = EmptyDatabase
    /\ inflight = <<>>

NextDirect == NextFormula \/ NextIndividual

SpecDirect == InitDirect /\ [][NextDirect]_vars

\* The function a state's op names, applied to fd.
Applied(fd) ==
    IF op = "calculate_altman_z_score" THEN calculate_altman_z_score(fd)
    ELSE IF op = "calculate_taffler_score" THEN calculate_taffler_score(fd)
    ELSE calculate_individual_credit_score(fd)

KeysReadBy(name) ==
    IF name = "calculate_altman_z_score" THEN AltmanKeysRead
    ELSE IF name = "calculate_taffler_score" THEN TafflerKeysRead
    ELSE IndividualKeysRead

\* fd with key set to value.
With(fd, key, value) ==
    [k \in DOMAIN fd \cup {key} |-> IF k = key THEN value ELSE fd[k]]

\* The fields a formula divides by.
DenominatorKeys ==
    {"total_assets", "total_liabilities", "current_liabilities", "monthly_expenses"}

DirectOps ==
    {"calculate_altman_z_score", "calculate_taffler_score",
     "calculate_individual_credit_score"}

\* C15 as stated: a formula function called with a key absent behaves as if
\* the key were present with the value 1 when the field is a denominator and
\* 0 otherwise, for every field of all three formulas.
C15_AbsentKeyIsZeroOrOne ==
    (op \in DirectOps) =>
        \A k \in KeysReadBy(op) \ DOMAIN input :
            result = Applied(With(input, k, IF k \in DenominatorKeys THEN 1 ELSE 0))

\* C15 as amended: the same, except that age defaults to 30.
C15_AbsentKeyTakesItsDefault ==
    (op \in DirectOps) =>
        \A k \in KeysReadBy(op) \ DOMAIN input :
            result = Applied(With(input, k, IF k \in DenominatorKeys THEN 1
                                            ELSE IF k = "age" THEN 30
                                            ELSE 0))

\* An individual call without age and without monthly_expenses returned the
\* score of age 30 and monthly_expenses 1.
C15_Witness ==
    /\ op = "calculate_individual_credit_score"
    /\ DOMAIN input = IndividualKeysRead \ {"age", "monthly_expenses"}
    /\ result.ok
    /\ result = calculate_individual_credit_score(With(With(input, "age", 30), "monthly_expenses", 1))
    /\ result # calculate_individual_credit_score(With(With(input, "age", 100), "monthly_expenses", 1))

----------------------------------------------------------------------------
(* Properties of the individual score formula (SpecIndividual).            *)

\* C16: for a call with all seven keys that returns, the score is
\* 300 + 200*min(income/expenses, 3) + 150*credit_history_score
\* + 100*has_collateral + 50*min(employment_years, 20)/20 - 20*(age/10)
\* - 100*min(credit_amount/income, 10), the terms taken in this order,
\* clamped to [300, 850].
C16_IndividualScoreFormula ==
    (/\ op = "calculate_individual_credit_score"
     /\ DOMAIN input = IndividualKeysRead
     /\ result.ok) =>
        LET ratio == RMin(Rat(input["monthly_income"], input["monthly_expenses"]), R(3))
            debt  == RMin(Rat(input["credit_amount"], input["monthly_income"]), R(10))
            years == IF input["employment_years"] < 20 THEN input["employment_years"] ELSE 20
        IN  \E raw \in {RSub(RSub(RAdd(RAdd(RAdd(RAdd(R(300), RMul(R(200), ratio)),
                                                 R(150 * input["credit_history_score"])),
                                            R(100 * input["has_collateral"])),
                                       Rat(50 * years, 20)),
                                  RMul(R(20), Rat(input["age"], 10))),
                             RMul(R(100), debt))} :
                IF RLt(raw, R(300)) THEN result.score = R(300)
                ELSE IF RGt(raw, R(850)) THEN result.score = R(850)
                ELSE REq(result.score, raw)

\* A call with the income ratio and the employment years at their caps whose
\* score, 950 - 200 - 200/3, lies strictly inside the range.
C16_Witness ==
    /\ op = "calculate_individual_credit_score"
    /\ DOMAIN input = IndividualKeysRead
    /\ input["monthly_income"] = 3
    /\ input["monthly_expenses"] = 1
    /\ input["employment_years"] = 21
    /\ input["credit_amount"] = 2
    /\ input["age"] = 100
    /\ result.ok
    /\ result.score = Rat(2050, 3)

\* C17 as stated: in a call that returns, the income-to-expense component is
\* at most 200, the credit-history component at most 150, the collateral
\* component exactly 100 when has_collateral = 1, the employment component
\* at most 50.
C17_ComponentCapsWithIncomeAt200 ==
    (/\ op = "calculate_individual_credit_score"
     /\ DOMAIN input = IndividualKeysRead
     /\ result.ok) =>
        /\ RLe(IncomeScore(input["monthly_income"], input["monthly_expenses"]), R(200))
        /\ RLe(HistoryScore(input["credit_history_score"]), R(150))
        /\ (input["has_collateral"] = 1 => CollateralScore(input["has_collateral"]) = R(100))
        /\ RLe(EmploymentScore(input["employment_years"]), R(50))

\* C17 as amended: the same with the income-to-expense component at most
\* 600 (200 times the ratio capped at 3.0).
C17_ComponentCaps ==
    (/\ op = "calculate_individual_credit_score"
     /\ DOMAIN input = IndividualKeysRead
     /\ result.ok) =>
        /\ RLe(IncomeScore(input["monthly_income"], input["monthly_expenses"]), R(600))
        /\ RLe(HistoryScore(input["credit_history_score"]), R(150))
        /\ (input["has_collateral"] = 1 => CollateralScore(input["has_collateral"]) = R(100))
        /\ RLe(EmploymentScore(input["employment_years"]), R(50))

\* A call whose income ratio (4) and employment years (21) exceed their
\* caps: the components are 600 and 50, the collateral component 100.
C17_Witness ==
    /\ op = "calculate_individual_credit_score"
    /\ DOMAIN input = IndividualKeysRead
    /\ result.ok
    /\ input["monthly_income"] = 4
    /\ input["monthly_expenses"] = 1
    /\ input["employment_years"] = 21
    /\ input["has_collateral"] = 1
    /\ IncomeScore(input["monthly_income"], input["monthly_expenses"]) = R(600)
    /\ EmploymentScore(input["employment_years"]) = R(50)
    /\ CollateralScore(input["has_collateral"]) = R(100)

----------------------------------------------------------------------------
(* Calls of the two orchestrators with keys beyond the ones they need.     *)

MaxExtra == 2

\* Every assignment of 1..MaxExtra to a subset of the extra keys.
ExtraDicts ==
    PartialDicts([working_capital : 1..MaxExtra, profit_before_tax : 1..MaxExtra,
                  company_name : 1..MaxExtra],
                 ExtraKeys)

Merge(base, extra) ==
    [k \in DOMAIN base \cup DOMAIN extra |->
        IF k \in DOMAIN extra THEN extra[k] ELSE base[k]]

\* Company requests, valid and invalid, one of them lacking a field.
ExtraCompanyBases ==
    [current_assets : 0..1, current_liabilities : {-1, 1},
     debt_capital : {1}, liabilities : {1},
     sales_profit : {1}, short_term_liabilities : {1},
     long_term_liabilities : {1}, total_assets : {1, 2},
     sales : {1}]
    \cup {[k \in CompanyFields \ {"sales"} |-> 1]}

ExtraIndividualBases ==
    [monthly_income : {0, 3}, monthly_expenses : {1, 2},
     credit_amount : {2}, credit_history_score : {1},
     has_collateral : {0, 1}, employment_years : {20},
     age : {25}]

ExtraInputs ==
    {Merge(b, e) : b \in ExtraCompanyBases \cup ExtraIndividualBases, e \in ExtraDicts}

InitExtra ==
    /\ op = "none"
    /\ input \in ExtraInputs
    /\ result = NoResult
    /\ trace = <<>>
    /\ history = <<>>
    /\ db = EmptyDatabase
    /\ inflight = <<>>

NextExtra == NextCompany \/ NextIndividual

SpecExtra == InitExtra /\ [][NextExtra]_vars

Restrict(fd, keys) == [k \in DOMAIN fd \cap keys |-> fd[k]]

\* C18: a call of calculate_bankruptcy_risk or calculate_individual_risk on
\* a mapping with extra keys returns what the call on the mapping without
\* them returns (so two mappings that agree on the required fields get
\* identical results), and it succeeds whenever that one does.
C18_ExtraKeysIgnored ==
    /\ op = "calculate_bankruptcy_risk" =>
           result = calculate_bankruptcy_risk(Restrict(input, CompanyFields)).ret
    /\ op = "calculate_individual_risk" =>
           result = calculate_individual_risk(Restrict(input, IndividualKeysRead))

\* A successful orchestrated company call whose request also carries
\* working_capital and profit_before_tax.
C18_Witness ==
    /\ op = "calculate_bankruptcy_risk"
    /\ result.ok
    /\ {"working_capital", "profit_before_tax"} \subseteq DOMAIN input
    /\ CompanyFields \subseteq DOMAIN input

----------------------------------------------------------------------------
(* api/routes.py: the request handlers and the two tables they use.        *)
(*                                                                         *)
(* A text is a sequence of one-character strings.  A date text is a record *)
(* [shape, year, month, day]: with shape "%Y-%m-%d" it is the text         *)
(* YYYY-MM-DD of those numbers, with another shape a text of another form. *)
(* A datetime is [year, month, day, second, microsecond], second counting   *)
(* from midnight.  An Optional[...] parameter is None or Some(value).      *)
(* An exception is [type, status_code, detail].                            *)

Some(value) == [kind |-> "Some", value |-> value]

IsLeap(year) == (year % 4 = 0 /\ year % 100 # 0) \/ year % 400 = 0

DaysInMonth(year, month) ==
    IF month = 2 THEN (IF IsLeap(year) THEN 29 ELSE 28)
    ELSE IF month \in {4, 6, 9, 11} THEN 30
    ELSE 31

\* datetime.strptime(date_string, "%Y-%m-%d")
strptime(date_string) ==
    IF /\ date_string.shape = "%Y-%m-%d"
       /\ date_string.year \in 1..9999
       /\ date_string.month \in 1..12
       /\ date_string.day \in 1..DaysInMonth(date_string.year, date_string.month)
    THEN [ok |-> TRUE,
          value |-> [year |-> date_string.year, month |-> date_string.month,
                     day |-> date_string.day, second |-> 0, microsecond |-> 0]]
    ELSE [ok |-> FALSE, type |-> "ValueError"]

\* Python exception classes derived from ValueError among those met here.
IsValueError(type) == type \in {"ValueError", "UnicodeEncodeError"}

HTTPException(status_code, detail) ==
    [type |-> "HTTPException", status_code |-> status_code, detail |-> detail]

\* What the session does on add, commit and refresh: "ok", or the step
\* that raises and the class of what it raises.
CommitOutcomes ==
    {[at |-> "none", type |-> "none"],
     [at |-> "commit", type |-> "OperationalError"],
     [at |-> "commit", type |-> "UnicodeEncodeError"],
     [at |-> "refresh", type |-> "OperationalError"]}

\* db.add, db.commit, db.refresh and, when one of them raises, db.rollback
\* (lines 118-124): a committed row is stored under the next id, a row whose
\* commit failed is not stored.
SessionSave(table, row, outcome) ==
    LET stored == Append(table, [id |-> Len(table) + 1] @@ row)
    IN  IF outcome.at = "none"
        THEN [raised |-> FALSE, table |-> stored,
              calls |-> <<"db.add", "db.commit", "db.refresh">>]
        ELSE IF outcome.at = "commit"
        THEN [raised |-> TRUE, type |-> outcome.type, table |-> table,
              calls |-> <<"db.add", "db.commit:" \o outcome.type, "db.rollback">>]
        ELSE [raised |-> TRUE, type |-> outcome.type, table |-> stored,
              calls |-> <<"db.add", "db.commit", "db.refresh:" \o outcome.type,
                          "db.rollback">>]

\* The inner handler re-raising what it caught.
save_except_reraise(type) == [type |-> type, status_code |-> 0, detail |-> "db_error"]

\* except Exception around the save (lines 122-129)
save_except(type) == HTTPException(500, "save_error")

\* except ValueError / except Exception of the predict handlers
\* (lines 142-153, 226-237)
predict_except(e) ==
    IF IsValueError(e.type)
    THEN HTTPException(400, "validation_error")
    ELSE HTTPException(500, "assessment_error")

Response(status_code, body) == [status_code |-> status_code, body |-> body]

ErrorResponse(e) == [status_code |-> e.status_code, body |-> [detail |-> e.detail]]

PredictionResponseFields ==
    {"altman_z_score", "altman_risk_level", "altman_recommendation",
     "taffler_z_score", "taffler_risk_level", "taffler_recommendation",
     "combined_risk_level", "combined_recommendation"}

IndividualPredictionResponseFields == {"credit_score", "risk_level", "recommendation"}

Pick(results, keys) == [k \in keys |-> results[k]]

\* The table written as holding only its newest row.
WriteTable_newest_only(database, table, rows) ==
    [database EXCEPT ![table] = IF rows = <<>> THEN rows ELSE <<rows[Len(rows)]>>]

\* The saved row written twice.
WriteTable_row_twice(database, table, rows) ==
    [database EXCEPT ![table] = IF rows = <<>> THEN rows ELSE Append(rows, rows[Len(rows)])]

\* The rows of the saved assessment's table after db.add and db.commit
\* (lines 96-120); the other table is not touched.
WriteTable(database, table, rows) == [database EXCEPT ![table] = rows]

\* The body shared by the two predict handlers once the results are
\* computed: parse the date, build the row, save it, answer.
PredictAfter(results, called, request, row_of_request, response_fields, database, table, outcome) ==
    LET assessment_date == strptime(request.assessment_date)
        saved == SessionSave(database[table],
                             [assessment_date |-> assessment_date.value]
                                 @@ row_of_request @@ Pick(results, response_fields),
                             outcome)
    IN  IF ~results.ok
        THEN [response |-> ErrorResponse(predict_except([type |-> "ValueError"])),
              db |-> database,
              calls |-> <<called>>]
        ELSE IF ~assessment_date.ok
        THEN [response |-> ErrorResponse(predict_except([type |-> assessment_date.type])),
              db |-> database,
              calls |-> <<called, "strptime">>]
        ELSE IF saved.raised
        THEN [response |-> ErrorResponse(predict_except(save_except(saved.type))),
              db |-> WriteTable(database, table, saved.table),
              calls |-> <<called, "strptime">> \o saved.calls]
        ELSE [response |-> Response(200, Pick(results, response_fields)),
              db |-> WriteTable(database, table, saved.table),
              calls |-> <<called, "strptime">> \o saved.calls]

\* The answer of the handler for each of the outcomes the session may
\* have: the results are computed once, before anything is saved.
predict_bankruptcy_risk(financial_data, database, outcomes) ==
    LET financial_dict == Exclude(financial_data, {"company_name", "assessment_date"})
    IN  CHOOSE answers \in
            {[outcome \in outcomes |->
                 PredictAfter(results, "calculate_bankruptcy_risk", financial_data,
                              Exclude(financial_data, {"assessment_date"}),
                              PredictionResponseFields,
                              database, "company_assessments", outcome)] :
                results \in {calculate_bankruptcy_risk(financial_dict).ret}} : TRUE

predict_individual_credit_risk(individual_data, database, outcomes) ==
    LET individual_dict == Exclude(individual_data, {"full_name", "assessment_date"})
        row == [Exclude(individual_data, {"assessment_date"})
                    EXCEPT !.has_collateral = (individual_data.has_collateral # 0)]
    IN  CHOOSE answers \in
            {[outcome \in outcomes |->
                 PredictAfter(results, "calculate_individual_risk", individual_data,
                              row, IndividualPredictionResponseFields,
                              database, "individual_assessments", outcome)] :
                results \in {calculate_individual_risk(individual_dict)}} : TRUE

\* Comparison of two datetimes, as the DateTime column compares.
DateTimeKey(dt) == <<dt.year, dt.month, dt.day, dt.second, dt.microsecond>>

DateTimeLess(a, b) ==
    LET ka == DateTimeKey(a)
        kb == DateTimeKey(b)
    IN  \E i \in 1..Len(ka) : ka[i] < kb[i] /\ \A j \in 1..(i - 1) : ka[j] = kb[j]

\* dt + timedelta(days=1)
PlusOneDay(dt) ==
    IF dt.day < DaysInMonth(dt.year, dt.month)
    THEN [ok |-> TRUE, value |-> [dt EXCEPT !.day = @ + 1]]
    ELSE IF dt.month < 12
    THEN [ok |-> TRUE, value |-> [dt EXCEPT !.day = 1, !.month = @ + 1]]
    ELSE IF dt.year < 9999
    THEN [ok |-> TRUE, value |-> [dt EXCEPT !.day = 1, !.month = 1, !.year = @ + 1]]
    ELSE [ok |-> FALSE, type |-> "OverflowError"]

\* end = end + timedelta(days=1) (line 268)
EndBound(end) == PlusOneDay(end)

\* except HTTPException: raise / except Exception of the statistics
\* handlers (lines 292-302, 356-366)
statistics_except(e) ==
    IF e.type = "HTTPException" THEN e ELSE HTTPException(500, "statistics_error")

\* datetime.isoformat(): the text YYYY-MM-DDTHH:MM:SS, followed by .ffffff
\* when the microsecond is not 0
isoformat(dt) ==
    [shape |-> IF dt.microsecond = 0 THEN "%Y-%m-%dT%H:%M:%S" ELSE "%Y-%m-%dT%H:%M:%S.%f",
     year |-> dt.year, month |-> dt.month, day |-> dt.day,
     second |-> dt.second, microsecond |-> dt.microsecond]

UpperCase == <<"A", "B", "C", "D", "E", "F", "G", "H">>
LowerCase == <<"a", "b", "c", "d", "e", "f", "g", "h">>

Lower(c) ==
    IF \E i \in 1..Len(UpperCase) : UpperCase[i] = c
    THEN LowerCase[CHOOSE i \in 1..Len(UpperCase) : UpperCase[i] = c]
    ELSE c

LowerText(text) == [i \in 1..Len(text) |-> Lower(text[i])]

Contains(text, part) ==
    \E i \in 0..(Len(text) - Len(part)) : SubSeq(text, i + 1, i + Len(part)) = part

\* column.ilike("%" + part + "%") for a part made of letters
ilike(text, part) == Contains(LowerText(text), LowerText(part))

\* if parameter: -- neither None nor the empty text
TruthyText(parameter) == parameter.kind = "Some" /\ parameter.value # <<>>

TruthyDate(parameter) == parameter.kind = "Some" /\ parameter.value.shape # ""

\* The rows a statistics query selects (lines 251-274), as indices of the
\* table, or the 400 raised for a date that does not parse.
StatisticsFilter(table, name_column, name, start_date, end_date) ==
    LET start == strptime(start_date.value)
        end == strptime(end_date.value)
    IN  IF TruthyDate(start_date) /\ ~start.ok
        THEN [ok |-> FALSE, e |-> HTTPException(400, "bad_start_date")]
        ELSE IF TruthyDate(end_date) /\ ~end.ok
        THEN [ok |-> FALSE, e |-> HTTPException(400, "bad_end_date")]
        ELSE IF TruthyDate(end_date) /\ ~EndBound(end.value).ok
        THEN [ok |-> FALSE, e |-> [type |-> EndBound(end.value).type]]
        ELSE [ok |-> TRUE,
              rows |-> {i \in 1..Len(table) :
                          /\ TruthyText(name) => ilike(table[i][name_column], name.value)
                          /\ TruthyDate(start_date) =>
                                 ~DateTimeLess(table[i].assessment_date, start.value)
                          /\ TruthyDate(end_date) =>
                                 DateTimeLess(table[i].assessment_date,
                                              EndBound(end.value).value)}]

\* The selected rows as a scan of the table meets them, by ascending id.
Scan(table, rows) ==
    LET Selected(i) == i \in rows
    IN  SelectSeq([i \in 1..Len(table) |-> i], Selected)

\* Two runs of rows, each in order of date, merged into one: of two rows
\* of equal date the one of the first run comes first.
RECURSIVE MergeByDate(_, _, _, _)
MergeByDate(table, first, second, descending) ==
    IF first = <<>> THEN second
    ELSE IF second = <<>> THEN first
    ELSE IF (IF descending
             THEN DateTimeLess(table[first[1]].assessment_date,
                               table[second[1]].assessment_date)
             ELSE DateTimeLess(table[second[1]].assessment_date,
                               table[first[1]].assessment_date))
    THEN CHOOSE merged \in {<<second[1]>> \o MergeByDate(table, first, rest, descending) :
                               rest \in {Tail(second)}} : TRUE
    ELSE CHOOSE merged \in {<<first[1]>> \o MergeByDate(table, rest, second, descending) :
                               rest \in {Tail(first)}} : TRUE

\* The rows of a scan sorted by date, rows of equal date staying in the
\* order of the scan.
RECURSIVE SortByDate(_, _, _)
SortByDate(table, scan, descending) ==
    IF Len(scan) <= 1 THEN scan
    ELSE CHOOSE ordered \in
             {MergeByDate(table, half[1], half[2], descending) :
                 half \in {<<SortByDate(table, SubSeq(scan, 1, Len(scan) \div 2),
                                        descending),
                             SortByDate(table, SubSeq(scan, Len(scan) \div 2 + 1, Len(scan)),
                                        descending)>>}} : TRUE

\* Every order of the rows of a set.
RECURSIVE RowOrders(_)
RowOrders(rows) ==
    IF rows = {} THEN {<<>>}
    ELSE UNION {{<<r>> \o rest : rest \in RowOrders(rows \ {r})} : r \in rows}

\* The orders of rows sorted by date that differ from the given one in the
\* order of rows of equal date only: the rows of the first date in every
\* order, followed by the rows of the later dates in every such order.
RECURSIVE TieOrders(_, _)
TieOrders(table, ordered) ==
    IF ordered = <<>> THEN {<<>>}
    ELSE LET first == {i \in 1..Len(ordered) :
                          table[ordered[i]].assessment_date
                              = table[ordered[1]].assessment_date}
         IN  {tied \o later :
                 tied \in RowOrders({ordered[i] : i \in first}),
                 later \in TieOrders(table, SubSeq(ordered, Cardinality(first) + 1,
                                                   Len(ordered)))}

\* The orders in which order_by(assessment_date) may return the rows: the
\* statement has no second key, so the rows of equal date come in an order
\* the database chooses, any of their orders.
Orderings(table, rows, descending) ==
    TieOrders(table, SortByDate(table, Scan(table, rows), descending))

Item(row, keys) ==
    [k \in keys |-> IF k = "assessment_date" THEN isoformat(row[k]) ELSE row[k]]

CompanyStatisticsKeys ==
    {"id", "company_name", "assessment_date", "altman_z_score", "taffler_z_score",
     "combined_risk_level", "total_assets", "liabilities", "sales"}

IndividualStatisticsKeys ==
    {"id", "full_name", "assessment_date", "credit_score", "risk_level",
     "monthly_income", "credit_amount", "age"}

\* The answers a statistics handler may give.
Statistics(table, name_column, keys, name, start_date, end_date) ==
    LET f == StatisticsFilter(table, name_column, name, start_date, end_date)
    IN  IF ~f.ok THEN {ErrorResponse(statistics_except(f.e))}
        ELSE {Response(200, [total |-> Len(o),
                             assessments |-> [i \in 1..Len(o) |-> Item(table[o[i]], keys)]]) :
                 o \in Orderings(table, f.rows, TRUE)}

get_company_statistics(company_name, start_date, end_date, database) ==
    Statistics(database.company_assessments, "company_name", CompanyStatisticsKeys,
               company_name, start_date, end_date)

get_individual_statistics(full_name, start_date, end_date, database) ==
    Statistics(database.individual_assessments, "full_name", IndividualStatisticsKeys,
               full_name, start_date, end_date)

\* The history matching the name whatever the case of its letters.
History_ignoring_case(table, name_column, total_key, keys, name) ==
    LET rows == {i \in 1..Len(table) : LowerText(table[i][name_column]) = LowerText(name)}
    IN  IF rows = {} THEN {ErrorResponse(HTTPException(404, "not_found"))}
        ELSE {Response(200, [k \in {name_column, total_key, "history"} |->
                                IF k = name_column THEN name
                                ELSE IF k = total_key THEN Len(o)
                                ELSE [i \in 1..Len(o) |-> Item(table[o[i]], keys)]]) :
                 o \in Orderings(table, rows, FALSE)}

\* The answers a history handler may give.
History(table, name_column, total_key, keys, name) ==
    LET rows == {i \in 1..Len(table) : table[i][name_column] = name}
    IN  IF rows = {} THEN {ErrorResponse(HTTPException(404, "not_found"))}
        ELSE {Response(200, [k \in {name_column, total_key, "history"} |->
                                IF k = name_column THEN name
                                ELSE IF k = total_key THEN Len(o)
                                ELSE [i \in 1..Len(o) |-> Item(table[o[i]], keys)]]) :
                 o \in Orderings(table, rows, FALSE)}

get_company_history(company_name, database) ==
    History(database.company_assessments, "company_name", "total_assessments",
            CompanyStatisticsKeys \ {"id", "company_name"}, company_name)

get_individual_history(full_name, database) ==
    History(database.individual_assessments, "full_name", "total_assessments",
            IndividualStatisticsKeys \ {"id", "full_name", "age"}, full_name)

----------------------------------------------------------------------------
(* scripts/seed_database.py: the script that adds assessments to both      *)
(* tables.  The names are written in the letters of the model.  What the   *)
(* script draws from the module random is a parameter: the values that     *)
(* random.random(), random.randint(-3, 3), random.choice([0, 1]) and       *)
(* random.randint(28, 60) return, each as a sequence the calls go through  *)
(* in order and around again.  Its clock and the outcome of its commit are *)
(* parameters as well.                                                     *)

\* BELARUSIAN_COMPANIES = list(COMPANY_BASE_DATA.keys()) (line 115): the keys
\* of COMPANY_BASE_DATA in their order (lines 25, 36, 47, 58, 69, 80, 91, 102)
BELARUSIAN_COMPANIES ==
    <<<<"A", "b">>, <<"B", "b">>, <<"C", "b">>, <<"D", "b">>,
      <<"E", "b">>, <<"F", "b">>, <<"G", "b">>, <<"H", "b">>>>

\* COMPANY_BASE_DATA[company_name] (lines 24-113) for a key of the
\* dictionary; period_data has the keys of strftime('%Y-%m') as
\* <<year, month>>.
COMPANY_BASE_DATA(company_name) ==
    IF company_name = BELARUSIAN_COMPANIES[1]
    THEN [base_total_assets |-> R(2500), base_liabilities_ratio |-> Rat(45, 100),
          base_sales_ratio |-> Rat(145, 100), base_profit_ratio |-> Rat(14, 100),
          period_data |-> (<<2024, 7>> :> [sales |-> 36100, profit |-> 5100])
                          @@ (<<2024, 9>> :> [sales |-> 36800, profit |-> 5300])
                          @@ (<<2024, 11>> :> [sales |-> 37500, profit |-> 5400])]
    ELSE IF company_name = BELARUSIAN_COMPANIES[2]
    THEN [base_total_assets |-> R(3200), base_liabilities_ratio |-> Rat(50, 100),
          base_sales_ratio |-> Rat(9, 10), base_profit_ratio |-> Rat(76, 1000),
          period_data |-> (<<2024, 7>> :> [sales |-> 2850, profit |-> 215])
                          @@ (<<2024, 9>> :> [sales |-> 2870, profit |-> 220])
                          @@ (<<2024, 11>> :> [sales |-> 2900, profit |-> 230])]
    ELSE IF company_name = BELARUSIAN_COMPANIES[3]
    THEN [base_total_assets |-> R(1800), base_liabilities_ratio |-> Rat(55, 100),
          base_sales_ratio |-> Rat(11, 10), base_profit_ratio |-> Rat(10, 100),
          period_data |-> (<<2024, 7>> :> [sales |-> 2000, profit |-> 180])
                          @@ (<<2024, 9>> :> [sales |-> 2050, profit |-> 195])
                          @@ (<<2024, 11>> :> [sales |-> 2100, profit |-> 210])]
    ELSE IF company_name = BELARUSIAN_COMPANIES[4]
    THEN [base_total_assets |-> R(1500), base_liabilities_ratio |-> Rat(48, 100),
          base_sales_ratio |-> Rat(115, 100), base_profit_ratio |-> Rat(11, 100),
          period_data |-> (<<2024, 7>> :> [sales |-> 1500, profit |-> 165])
                          @@ (<<2024, 9>> :> [sales |-> 1550, profit |-> 170])
                          @@ (<<2024, 11>> :> [sales |-> 1650, profit |-> 180])]
    ELSE IF company_name = BELARUSIAN_COMPANIES[5]
    THEN [base_total_assets |-> R(2800), base_liabilities_ratio |-> Rat(47, 100),
          base_sales_ratio |-> Rat(125, 100), base_profit_ratio |-> Rat(13, 100),
          period_data |-> (<<2024, 7>> :> [sales |-> 2850, profit |-> 220])
                          @@ (<<2024, 9>> :> [sales |-> 2870, profit |-> 225])
                          @@ (<<2024, 11>> :> [sales |-> 2900, profit |-> 240])]
    ELSE IF company_name = BELARUSIAN_COMPANIES[6]
    THEN [base_total_assets |-> R(4200), base_liabilities_ratio |-> Rat(58, 100),
          base_sales_ratio |-> Rat(15, 10), base_profit_ratio |-> Rat(8, 100),
          period_data |-> (<<2024, 7>> :> [sales |-> 7200, profit |-> 450])
                          @@ (<<2024, 9>> :> [sales |-> 7350, profit |-> 480])
                          @@ (<<2024, 11>> :> [sales |-> 7500, profit |-> 520])]
    ELSE IF company_name = BELARUSIAN_COMPANIES[7]
    THEN [base_total_assets |-> R(3800), base_liabilities_ratio |-> Rat(46, 100),
          base_sales_ratio |-> Rat(12, 10), base_profit_ratio |-> Rat(15, 100),
          period_data |-> (<<2024, 7>> :> [sales |-> 3600, profit |-> 500])
                          @@ (<<2024, 9>> :> [sales |-> 3700, profit |-> 530])
                          @@ (<<2024, 11>> :> [sales |-> 3850, profit |-> 580])]
    ELSE [base_total_assets |-> R(8670), base_liabilities_ratio |-> Rat(88, 100),
          base_sales_ratio |-> Rat(15, 100), base_profit_ratio |-> Rat(56, 1000),
          period_data |-> (<<2024, 7>> :> [sales |-> 400, profit |-> 240])
                          @@ (<<2024, 9>> :> [sales |-> 450, profit |-> 280])
                          @@ (<<2024, 11>> :> [sales |-> 500, profit |-> 320])]

\* The base data generate_company_data takes for a name that is no key of
\* COMPANY_BASE_DATA (lines 131-137).
DefaultBaseData ==
    [base_total_assets |-> R(2000), base_liabilities_ratio |-> Rat(50, 100),
     base_sales_ratio |-> Rat(12, 10), base_profit_ratio |-> Rat(12, 100),
     period_data |-> <<>>]

\* INDIVIDUAL_NAMES (lines 118-127)
INDIVIDUAL_NAMES ==
    <<<<"A", "c">>, <<"B", "c">>, <<"C", "c">>, <<"D", "c">>,
      <<"E", "c">>, <<"F", "c">>, <<"G", "c">>, <<"H", "c">>>>

\* range(6) (lines 218, 261)
SeedMonths == 6

\* The k-th of the values a call site draws, the sequence taken around
\* again when it is used up.
Draw(values, k) == values[((k - 1) % Len(values)) + 1]

\* random.uniform(a, b) when random.random() returns u: a + (b - a) * u
uniform(a, b, u) == RAdd(Float(a), RMul(Float(Minus(b, a)), u))

\* COMPANY_BASE_DATA.get(company_name, {...}) (lines 131-137)
BaseDataOf(company_name) ==
    IF \E i \in 1..Len(BELARUSIAN_COMPANIES) : BELARUSIAN_COMPANIES[i] = company_name
    THEN COMPANY_BASE_DATA(company_name)
    ELSE DefaultBaseData

\* date.strftime('%Y-%m') (line 140)
strftime(date) == <<date.year, date.month>>

\* generate_company_data (lines 129-184); random is the five values that
\* random.random() returns during the call.
generate_company_data(company_name, date, trend, random) ==
    CHOOSE data \in
        {[current_assets |->
              IF RGt(c.current_assets, c.max_current_assets)
              THEN c.max_current_assets ELSE c.current_assets,
          current_liabilities |-> c.capped_current_liabilities,
          debt_capital |->
              RMul(c.liabilities, uniform(Rat(65, 100), Rat(80, 100), random[5])),
          liabilities |-> c.liabilities,
          sales_profit |-> c.sales_profit,
          short_term_liabilities |-> c.capped_current_liabilities,
          long_term_liabilities |->
              RMul(c.liabilities, Minus(1, c.current_liabilities_ratio)),
          total_assets |-> c.total_assets,
          sales |-> c.sales] :
            c \in {[capped_current_liabilities |->
                        IF RGt(b.current_assets, b.max_current_assets)
                        THEN (IF RGt(b.liquidity_ratio, R(0))
                              THEN RDiv(b.max_current_assets, b.liquidity_ratio)
                              ELSE b.current_liabilities)
                        ELSE b.current_liabilities] @@ b :
               b \in {[current_assets |-> RMul(a.current_liabilities, a.liquidity_ratio),
                       max_current_assets |-> RMul(a.total_assets, Rat(45, 100))] @@ a :
               a \in {[current_liabilities |->
                           RMul(l.liabilities, l.current_liabilities_ratio)] @@ l :
               l \in {[liabilities |->
                           RMul(RMul(t.total_assets, t.base_data.base_liabilities_ratio),
                                uniform(Rat(98, 100), Rat(102, 100), random[2])),
                       liquidity_ratio |-> uniform(Rat(25, 100), Rat(65, 100), random[3]),
                       current_liabilities_ratio |->
                           uniform(Rat(55, 100), Rat(70, 100), random[4])] @@ t :
               t \in {[base_data |-> base_data,
                       sales |->
                           IF strftime(date) \in DOMAIN base_data.period_data
                           THEN Times(base_data.period_data[strftime(date)].sales, trend)
                           ELSE RMul(RMul(base_data.base_total_assets,
                                          base_data.base_sales_ratio), trend),
                       sales_profit |->
                           IF strftime(date) \in DOMAIN base_data.period_data
                           THEN Times(base_data.period_data[strftime(date)].profit, trend)
                           ELSE RMul(RMul(base_data.base_total_assets,
                                          base_data.base_profit_ratio), trend),
                       total_assets |->
                           RMul(RMul(base_data.base_total_assets, trend),
                                uniform(Rat(97, 100), Rat(103, 100), random[1]))] :
               base_data \in {BaseDataOf(company_name)}}}}}}} : TRUE

\* generate_individual_data (lines 186-198); random.random is the five
\* values random.random() returns during the call, random.choice and
\* random.randint the values of the two other calls.
generate_individual_data(full_name, date, trend, random) ==
    CHOOSE data \in
        {[monthly_income |-> base_income,
          monthly_expenses |->
              RMul(base_income, uniform(Rat(55, 100), Rat(75, 100), random.random[2])),
          credit_amount |-> RMul(base_income, uniform(4, 10, random.random[3])),
          credit_history_score |-> uniform(Rat(4, 10), Rat(95, 100), random.random[4]),
          has_collateral |-> random.choice,
          employment_years |-> uniform(2, 18, random.random[5]),
          age |-> random.randint] :
            base_income \in {RMul(uniform(50000, 300000, random.random[1]), trend)}} : TRUE

\* What the commit of the script does: "ok", or the class of what it raises.
SeedOutcomes == {o \in CommitOutcomes : o.at # "refresh"}

\* The last day of the month before dt's, at dt's time of the day.
EndOfPreviousMonth(dt) ==
    IF dt.month > 1
    THEN [dt EXCEPT !.day = DaysInMonth(dt.year, dt.month - 1), !.month = @ - 1]
    ELSE [dt EXCEPT !.day = 31, !.month = 12, !.year = @ - 1]

\* The first day of the month after dt's, at dt's time of the day.
StartOfNextMonth(dt) ==
    IF dt.month < 12
    THEN [dt EXCEPT !.day = 1, !.month = @ + 1]
    ELSE [dt EXCEPT !.day = 1, !.month = 1, !.year = @ + 1]

\* dt + timedelta(days=days), for a result within the years of datetime
RECURSIVE PlusDays(_, _)
PlusDays(dt, days) ==
    IF days >= 0
    THEN IF dt.day + days <= DaysInMonth(dt.year, dt.month)
         THEN [dt EXCEPT !.day = @ + days]
         ELSE PlusDays(StartOfNextMonth(dt),
                       days - (DaysInMonth(dt.year, dt.month) - dt.day) - 1)
    ELSE IF dt.day + days >= 1
         THEN [dt EXCEPT !.day = @ + days]
         ELSE PlusDays(EndOfPreviousMonth(dt), days + dt.day)

\* start_date + timedelta(days=month * 30 + random.randint(-3, 3)) when
\* randint returns shift (lines 219, 262)
SeedDate(start_date, month, shift) == PlusDays(start_date, month * 30 + shift)

\* The state of the script between two assessments: the trend of the name
\* it is at, the number of calls of random.random() and of
\* random.randint(-3, 3) so far, and the assessments added to the session.
SeedStart == [trend |-> Zero, random |-> 0, shifts |-> 0, added |-> <<>>]

\* trend = random.uniform(low, high) at the first month of a name
\* (lines 216, 259)
SeedTrend(s, month, low, high, random) ==
    IF month = 0
    THEN [s EXCEPT !.trend = uniform(low, high, Draw(random.random, s.random + 1)),
                   !.random = @ + 1]
    ELSE s

\* The body of the loop over the months of a company (lines 219-255) for the
\* k-th pair of a company and a month: an assessment whose computation
\* raises is passed over.
SeedCompanyAssessment(start_date, random, k, s0) ==
    CHOOSE next \in
        {IF ~v.results.ok
         THEN [v.s EXCEPT !.random = @ + 5, !.shifts = @ + 1]
         ELSE [v.s EXCEPT
                   !.added = Append(@, [company_name |-> v.company_name,
                                        assessment_date |-> v.assessment_date]
                                           @@ v.financial_data
                                           @@ Pick(v.results, PredictionResponseFields)),
                   !.trend = RMul(@, uniform(Rat(99, 100), Rat(101, 100),
                                             Draw(random.random, v.s.random + 6))),
                   !.random = @ + 6,
                   !.shifts = @ + 1] :
            v \in {[results |-> calculate_bankruptcy_risk(d.financial_data).ret] @@ d :
            d \in {[financial_data |->
                        generate_company_data(
                            a.company_name, a.assessment_date, a.s.trend,
                            [i \in 1..5 |-> Draw(random.random, a.s.random + i)])] @@ a :
            a \in {[s |-> s,
                    company_name |-> BELARUSIAN_COMPANIES[((k - 1) \div SeedMonths) + 1],
                    assessment_date |->
                        SeedDate(start_date, (k - 1) % SeedMonths,
                                 Draw(random.shift, s.shifts + 1))] :
            s \in {SeedTrend(s0, (k - 1) % SeedMonths, Rat(95, 100), Rat(108, 100),
                             random)}}}}} : TRUE

\* The body of the loop over the months of a person (lines 262-291) for the
\* k-th pair of a name and a month.
SeedIndividualAssessment(start_date, random, k, s0) ==
    CHOOSE next \in
        {IF ~v.results.ok
         THEN [v.s EXCEPT !.random = @ + 5, !.shifts = @ + 1]
         ELSE [v.s EXCEPT
                   !.added = Append(@, [full_name |-> v.full_name,
                                        assessment_date |-> v.assessment_date]
                                           @@ [v.individual_data EXCEPT
                                                   !.has_collateral = (@ # 0)]
                                           @@ Pick(v.results,
                                                   IndividualPredictionResponseFields)),
                   !.trend = RMul(@, uniform(Rat(99, 100), Rat(101, 100),
                                             Draw(random.random, v.s.random + 6))),
                   !.random = @ + 6,
                   !.shifts = @ + 1] :
            v \in {[results |-> calculate_individual_risk(d.individual_data)] @@ d :
            d \in {[individual_data |->
                        generate_individual_data(
                            a.full_name, a.assessment_date, a.s.trend,
                            [random |-> [i \in 1..5 |-> Draw(random.random, a.s.random + i)],
                             choice |-> Draw(random.choice, k),
                             randint |-> Draw(random.age, k)])] @@ a :
            a \in {[s |-> s,
                    full_name |-> INDIVIDUAL_NAMES[((k - 1) \div SeedMonths) + 1],
                    assessment_date |->
                        SeedDate(start_date, (k - 1) % SeedMonths,
                                 Draw(random.shift, s.shifts + 1))] :
            s \in {SeedTrend(s0, (k - 1) % SeedMonths, Rat(97, 100), Rat(105, 100),
                             random)}}}}} : TRUE

\* The two loops over the companies and their months (lines 215-255), from
\* the k-th pair on.
RECURSIVE SeedCompanies(_, _, _, _)
SeedCompanies(start_date, random, k, s) ==
    IF k > Len(BELARUSIAN_COMPANIES) * SeedMonths THEN s
    ELSE CHOOSE end \in {SeedCompanies(start_date, random, k + 1, next) :
                            next \in {SeedCompanyAssessment(start_date, random, k, s)}} : TRUE

\* The two loops over the persons and their months (lines 258-291).
RECURSIVE SeedIndividuals(_, _, _, _)
SeedIndividuals(start_date, random, k, s) ==
    IF k > Len(INDIVIDUAL_NAMES) * SeedMonths THEN s
    ELSE CHOOSE end \in {SeedIndividuals(start_date, random, k + 1, next) :
                            next \in {SeedIndividualAssessment(start_date, random, k, s)}} : TRUE

\* The table after the commit: the added rows follow the stored ones and
\* take the next ids.
SeedAppend(table, added) ==
    table \o [i \in 1..Len(added) |-> [id |-> Len(table) + i] @@ added[i]]

\* seed_database() (lines 200-304), for each of the outcomes its commit may
\* have: every assessment is added to the session, one commit stores them
\* all, and a commit that raises is rolled back and raised again.
seed_database(database, now, random, outcomes) ==
    CHOOSE answers \in
        {[outcome \in outcomes |->
             IF outcome.at = "none"
             THEN [raised |-> FALSE,
                   company_count |-> Len(a.companies.added),
                   individual_count |-> Len(a.individuals.added),
                   db |-> [company_assessments |->
                               SeedAppend(database.company_assessments,
                                          a.companies.added),
                           individual_assessments |->
                               SeedAppend(database.individual_assessments,
                                          a.individuals.added)],
                   calls |-> [k \in 1..(Len(a.companies.added)
                                        + Len(a.individuals.added)) |-> "db.add"]
                             \o <<"db.commit", "db.close">>]
             ELSE [raised |-> TRUE, type |-> outcome.type,
                   db |-> database,
                   calls |-> [k \in 1..(Len(a.companies.added)
                                        + Len(a.individuals.added)) |-> "db.add"]
                             \o <<"db.commit:" \o outcome.type, "db.rollback",
                                  "db.close">>]] :
            a \in {[companies |-> c.companies,
                    individuals |->
                        SeedIndividuals(c.start_date, c.random, 1,
                                        [SeedStart EXCEPT !.random = c.companies.random,
                                                          !.shifts = c.companies.shifts])] :
            c \in {[start_date |-> v.start_date, random |-> v.random,
                    companies |-> SeedCompanies(v.start_date, v.random, 1, SeedStart)] :
            v \in {[start_date |-> PlusDays(now, -180), random |-> random]}}}} : TRUE

----------------------------------------------------------------------------
(* Requests to the API, and runs of the seeding script.                    *)

MaxRecords == 2

Names == {<<"A", "b">>, <<"a", "b">>}

\* Two days, a day that does not exist, a date in another form.
DateTexts ==
    {[shape |-> "%Y-%m-%d", year |-> 2024, month |-> 1, day |-> 31],
     [shape |-> "%Y-%m-%d", year |-> 2024, month |-> 2, day |-> 1],
     [shape |-> "%Y-%m-%d", year |-> 2024, month |-> 2, day |-> 30],
     [shape |-> "%d.%m.%Y", year |-> 2024, month |-> 1, day |-> 31]}

\* Requests FinancialDataRequest accepts (models.py lines 9-33), as the
\* handler receives them: a field declared float holds a float.
CompanyRequests ==
    [company_name : Names, assessment_date : DateTexts,
     current_assets : {R(2)}, current_liabilities : {R(1)},
     debt_capital : {R(1)}, liabilities : {R(1)},
     sales_profit : {R(1)}, short_term_liabilities : {R(1)},
     long_term_liabilities : {R(1)}, total_assets : {R(1)},
     sales : {R(1)}]

\* Requests IndividualDataRequest accepts (models.py lines 51-70).
IndividualRequests ==
    [full_name : Names,
     assessment_date : {d \in DateTexts : d.month = 1},
     monthly_income : {R(3)}, monthly_expenses : {R(1)},
     credit_amount : {R(2)}, credit_history_score : {R(1)},
     has_collateral : {1}, employment_years : {R(5)},
     age : {30}]

NameFilters == {None, Some(<<"a">>)}

\* The names a history is asked for: the names of the requests, a part of
\* a name, the first name of each list of the seeding script.
HistoryNames == Names \cup {<<"a">>, BELARUSIAN_COMPANIES[1], INDIVIDUAL_NAMES[1]}

DateFilters ==
    {None,
     Some([shape |-> "%Y-%m-%d", year |-> 2024, month |-> 1, day |-> 31]),
     Some([shape |-> "%d.%m.%Y", year |-> 2024, month |-> 1, day |-> 31])}

Stored == Len(db.company_assessments) + Len(db.individual_assessments)

QueryOps == {"get_company_statistics", "get_individual_statistics",
             "get_company_history", "get_individual_history"}

\* No query has been answered yet.  A query stores nothing, so a behaviour
\* is followed up to its first query: what comes after it comes as well
\* without it.
BeforeQuery == op \notin QueryOps

\* The state is the initial one or that after a request answered with 200.
\* The script reads nothing of the state but the tables, and every table
\* of up to MaxRecords predicted rows is that of such a state.
AfterStoring ==
    \/ op = "none"
    \/ op \in {"predict_bankruptcy_risk", "predict_individual_credit_risk"}
          /\ result.status_code = 200

InitApi ==
    /\ op = "none"
    /\ input = <<>>
    /\ result = NoResult
    /\ trace = <<>>
    /\ history = <<>>
    /\ db = EmptyDatabase
    /\ inflight = <<>>

PredictBankruptcyRisk ==
    /\ Stored < MaxRecords
    /\ \E financial_data \in CompanyRequests :
           \E answers \in {predict_bankruptcy_risk(financial_data, db, CommitOutcomes)} :
           \E outcome \in CommitOutcomes : \E r \in {answers[outcome]} :
               /\ op' = "predict_bankruptcy_risk"
               /\ input' = financial_data
               /\ result' = r.response
               /\ trace' = r.calls
               /\ db' = r.db
               /\ UNCHANGED <<history, inflight>>

PredictIndividualCreditRisk ==
    /\ Stored < MaxRecords
    /\ \E individual_data \in IndividualRequests :
           \E answers \in {predict_individual_credit_risk(individual_data, db, CommitOutcomes)} :
           \E outcome \in CommitOutcomes : \E r \in {answers[outcome]} :
               /\ op' = "predict_individual_credit_risk"
               /\ input' = individual_data
               /\ result' = r.response
               /\ trace' = r.calls
               /\ db' = r.db
               /\ UNCHANGED <<history, inflight>>

\* Runs of the script: what datetime.now() returns (line 208) and what the
\* calls of random return.  In the first every draw of random() is the
\* least there is, in the second the draws vary from call to call, in the
\* third every draw of random() is the greatest there is and the dates
\* reach the months COMPANY_BASE_DATA has period data for.  The day shifts
\* go through all seven values, upwards or downwards: of the eight names
\* of a month two then share a date, the first and the last, and a run of
\* the script cannot leave fewer rows of equal date, eight names drawing
\* from seven shifts.
SeedRuns ==
    {[now |-> [year |-> 2024, month |-> 7, day |-> 28, second |-> 86399,
               microsecond |-> 999999],
      random |-> [random |-> <<Zero>>,
                  shift |-> <<-3, -2, -1, 0, 1, 2, 3>>,
                  choice |-> <<0>>, age |-> <<28>>]],
     [now |-> [year |-> 2024, month |-> 7, day |-> 28, second |-> 43200,
               microsecond |-> 250000],
      random |-> [random |-> <<Rat(1, 2), Rat(1, 4), Rat(7, 8), Rat(1, 3), Rat(9, 10)>>,
                  shift |-> <<-3, -2, -1, 0, 1, 2, 3>>,
                  choice |-> <<0, 1>>,
                  age |-> <<28, 44, 60, 35>>]],
     [now |-> [year |-> 2025, month |-> 1, day |-> 15, second |-> 1, microsecond |-> 1],
      random |-> [random |-> <<[neg |-> FALSE, m |-> <<32767, 32767, 32767, 255>>,
                                e |-> -53]>>,
                  shift |-> <<3, 2, 1, 0, -1, -2, -3>>,
                  choice |-> <<1>>, age |-> <<60>>]]}

\* A run of scripts/seed_database.py.
SeedDatabase ==
    /\ Stored < MaxRecords
    /\ AfterStoring
    /\ \E run \in SeedRuns :
           \E answers \in {seed_database(db, run.now, run.random, SeedOutcomes)} :
           \E outcome \in SeedOutcomes : \E r \in {answers[outcome]} :
               /\ op' = "seed_database"
               /\ input' = run
               /\ result' = Exclude(r, {"db", "calls"})
               /\ trace' = r.calls
               /\ db' = r.db
               /\ UNCHANGED <<history, inflight>>

GetCompanyStatistics ==
    \E company_name \in NameFilters, start_date \in DateFilters, end_date \in DateFilters :
        /\ op' = "get_company_statistics"
        /\ input' = [company_name |-> company_name, start_date |-> start_date,
                     end_date |-> end_date]
        /\ result' \in get_company_statistics(company_name, start_date, end_date, db)
        /\ trace' = <<"db.query">>
        /\ UNCHANGED <<history, db, inflight>>

GetIndividualStatistics ==
    \E full_name \in NameFilters, start_date \in DateFilters, end_date \in DateFilters :
        /\ op' = "get_individual_statistics"
        /\ input' = [full_name |-> full_name, start_date |-> start_date,
                     end_date |-> end_date]
        /\ result' \in get_individual_statistics(full_name, start_date, end_date, db)
        /\ trace' = <<"db.query">>
        /\ UNCHANGED <<history, db, inflight>>

GetCompanyHistory ==
    \E company_name \in HistoryNames :
        /\ op' = "get_company_history"
        /\ input' = [company_name |-> company_name]
        /\ result' \in get_company_history(company_name, db)
        /\ trace' = <<"db.query">>
        /\ UNCHANGED <<history, db, inflight>>

GetIndividualHistory ==
    \E full_name \in HistoryNames :
        /\ op' = "get_individual_history"
        /\ input' = [full_name |-> full_name]
        /\ result' \in get_individual_history(full_name, db)
        /\ trace' = <<"db.query">>
        /\ UNCHANGED <<history, db, inflight>>

NextApi ==
    \/ BeforeQuery /\ PredictBankruptcyRisk
    \/ BeforeQuery /\ PredictIndividualCreditRisk
    \/ BeforeQuery /\ SeedDatabase
    \/ BeforeQuery /\ GetCompanyStatistics
    \/ BeforeQuery /\ GetIndividualStatistics
    \/ BeforeQuery /\ GetCompanyHistory
    \/ BeforeQuery /\ GetIndividualHistory

SpecApi == InitApi /\ [][NextApi]_vars

Called(call) == \E i \in 1..Len(trace) : trace[i] = call

PredictOps == {"predict_bankruptcy_risk", "predict_individual_credit_risk"}

\* C12: a predict request that fails before anything is saved (the
\* computation raises or the assessment date does not parse) is answered
\* with 400; a predict request whose save raises after the computation
\* succeeded is answered with 500, whatever the class of the exception;
\* every other predict request is answered with 200.
C12_BadInput400StorageFailure500 ==
    op \in PredictOps =>
        /\ ~Called("db.add") => result.status_code = 400
        /\ ~strptime(input.assessment_date).ok => result.status_code = 400
        /\ Called("db.rollback") => result.status_code = 500
        /\ (Called("db.add") /\ ~Called("db.rollback")) => result.status_code = 200

\* A commit that raised UnicodeEncodeError, a ValueError, after a
\* successful computation, answered with 500.
C12_Witness ==
    /\ op = "predict_bankruptcy_risk"
    /\ trace = <<"calculate_bankruptcy_risk", "strptime", "db.add", "db.commit:UnicodeEncodeError", "db.rollback">>
    /\ result.status_code = 500

Tables == {"company_assessments", "individual_assessments"}

\* C20: every step of the API keeps each stored row, at its place and with
\* its field values, and a query leaves both tables as they were.
C20_RecordsOnlyAccumulate ==
    [][/\ \A t \in Tables :
            /\ Len(db'[t]) >= Len(db[t])
            /\ \A i \in 1..Len(db[t]) : db'[t][i] = db[t][i]
       /\ op' \in QueryOps => db' = db]_vars

\* Two company rows stored and a statistics query answered from both.
C20_Witness ==
    /\ op = "get_company_statistics"
    /\ result.status_code = 200
    /\ Len(db.company_assessments) = 2
    /\ result.body.total = 2

----------------------------------------------------------------------------
(* Calls of the two orchestrators on inputs whose scores need rounding.    *)

MaxTotalAssets == 7

\* Valid company requests: the Taffler score has more than four decimals
\* for total_assets 7 (4.1743 reported), and lies next to a rounding tie
\* for total_assets 32 and 96 (0.3663 and 8.0887 reported).
RoundingCompanyInputs ==
    [current_assets : (-1)..1, current_liabilities : {1},
     debt_capital : {1}, liabilities : {1},
     sales_profit : {1}, short_term_liabilities : {1},
     long_term_liabilities : {1}, total_assets : 1..MaxTotalAssets,
     sales : {1}]
    \cup [current_assets : {-1, 2}, current_liabilities : {1},
          debt_capital : {1}, liabilities : {1},
          sales_profit : {1}, short_term_liabilities : {1},
          long_term_liabilities : {1}, total_assets : {32, 96},
          sales : {1}]

\* Individual inputs; income 25000, expenses 25000, credit 249, history 1,
\* collateral 1, 2 years, age 27 score 700.004 (700.0 reported).
RoundingIndividualInputs ==
    [monthly_income : {3, 25000}, monthly_expenses : {1, 25000},
     credit_amount : {2, 249}, credit_history_score : {0, 1},
     has_collateral : {0, 1}, employment_years : {2, 20},
     age : {27, 30}]
    \cup ThresholdIndividualInputs

InitRounding ==
    /\ op = "none"
    /\ input \in RoundingCompanyInputs \cup RoundingIndividualInputs
    /\ result = NoResult
    /\ trace = <<>>
    /\ history = <<>>
    /\ db = EmptyDatabase
    /\ inflight = <<>>

NextRounding == CalculateBankruptcyRisk \/ CalculateIndividualRisk

SpecRounding == InitRounding /\ [][NextRounding]_vars

\* C21: in a result of calculate_bankruptcy_risk each reported score is the
\* formula's score rounded to 4 places and each tier is the tier of the
\* unrounded score; in a result of calculate_individual_risk the score is
\* rounded to 2 places and the tier is the tier of the unrounded score.
C21_TierOfUnroundedScore ==
    /\ (op = "calculate_bankruptcy_risk" /\ result.ok) =>
           \E a \in {calculate_altman_z_score(Project(input, REQUIRED_FIELDS_ALTMAN))},
              t \in {calculate_taffler_score(Project(input, REQUIRED_FIELDS_TAFFLER))} :
               /\ result.altman_z_score = Round(a.score, 4)
               /\ result.altman_risk_level = AltmanRiskLevel(a.score)
               /\ result.taffler_z_score = Round(t.score, 4)
               /\ result.taffler_risk_level = TafflerRiskLevel(t.score)
               /\ result.combined_risk_level =
                      calculate_combined_risk(a.score, t.score).combined_risk_level
    /\ (op = "calculate_individual_risk" /\ result.ok) =>
           \E r \in {calculate_individual_credit_score(input)} :
               /\ result.credit_score = Round(r.score, 2)
               /\ result.risk_level = IndividualRiskLevel(r.score)

\* An individual result reported as 700.0, the medium tier's upper end,
\* with tier low because the unrounded score is above 700.
C21_Witness ==
    /\ op = "calculate_individual_risk"
    /\ result.ok
    /\ RGt(calculate_individual_credit_score(input).score, R(INDIVIDUAL_LOW_RISK_THRESHOLD))
    /\ result.credit_score = R(INDIVIDUAL_LOW_RISK_THRESHOLD)
    /\ result.risk_level = "low"

----------------------------------------------------------------------------
(* C22 *)

Tiers == {"low", "medium", "high"}

\* The text each formula function gives with each tier.
TextOf(name, tier) ==
    IF name = "calculate_altman_z_score" THEN AltmanRecommendation(tier)
    ELSE IF name = "calculate_taffler_score" THEN TafflerRecommendation(tier)
    ELSE IndividualRecommendation(tier)

FixedTexts ==
    [calculate_altman_z_score |->
         [low |-> "altman_low", medium |-> "altman_medium", high |-> "altman_high"],
     calculate_taffler_score |->
         [low |-> "taffler_low", medium |-> "taffler_medium", high |-> "taffler_high"],
     calculate_individual_credit_score |->
         [low |-> "individual_low", medium |-> "individual_medium",
          high |-> "individual_high"]]

\* C22: the recommendation a formula function returns is the fixed text of
\* the returned tier, whatever the input, and the three texts of a formula
\* are pairwise distinct.
C22_TextIsFunctionOfTier ==
    (op \in DirectOps /\ result.ok) =>
        /\ result.risk_level \in Tiers
        /\ result.recommendation = FixedTexts[op][result.risk_level]
        /\ \A s, t \in Tiers : s # t => TextOf(op, s) # TextOf(op, t)

\* calculate_altman_z_score returning the medium tier with its text.
C22_Witness ==
    /\ op = "calculate_altman_z_score"
    /\ result.ok
    /\ result.risk_level = "medium"
    /\ result.recommendation = "altman_medium"

----------------------------------------------------------------------------
(* model.py get_model_info: the classifications its descriptions state.    *)

\* altman_description: Z < -0.5 low, -0.5 <= Z < 0.0 medium, Z >= 0.0 high
DocumentedAltmanTier(z_score) ==
    IF RLt(z_score, Rat(-5, 10)) THEN "low"
    ELSE IF RLt(z_score, R(0)) THEN "medium"
    ELSE "high"

\* taffler_description: T > 0.3 low, 0.2 < T <= 0.3 medium, T <= 0.2 high
DocumentedTafflerTier(t_score) ==
    IF RGt(t_score, Rat(3, 10)) THEN "low"
    ELSE IF RGt(t_score, Rat(2, 10)) THEN "medium"
    ELSE "high"

\* C24 as stated: the tier calculate_taffler_score returns is the tier the
\* Taffler description of get_model_info gives for the returned score.
C24_TafflerTierAsDocumented ==
    (op = "calculate_taffler_score" /\ result.ok) =>
        result.risk_level = DocumentedTafflerTier(result.score)

\* C25 as stated: the tier calculate_altman_z_score returns is the tier the
\* Altman description of get_model_info gives for the returned score.
C25_AltmanTierAsDocumented ==
    (op = "calculate_altman_z_score" /\ result.ok) =>
        result.risk_level = DocumentedAltmanTier(result.score)

----------------------------------------------------------------------------
(* C26, C27 *)

\* C26 as stated: a predict request answered with an error leaves both
\* tables as they were.
C26_ErrorStoresNothing ==
    [][(op' \in PredictOps /\ result'.status_code # 200) => db' = db]_vars

TableOf(name) ==
    IF name = "predict_bankruptcy_risk" THEN "company_assessments"
    ELSE "individual_assessments"

CountOf(calls, call) == Cardinality({i \in 1..Len(calls) : calls[i] = call})

\* The row a request asks to store, apart from its id and its results.
RowOfRequest(name, request) ==
    [k \in DOMAIN request |->
        IF k = "assessment_date"
        THEN [year |-> request[k].year, month |-> request[k].month,
              day |-> request[k].day, second |-> 0, microsecond |-> 0]
        ELSE IF k = "has_collateral" THEN request[k] # 0
        ELSE request[k]]

\* C27: a predict request answered with 200 has added exactly one row, to
\* its own table and under the next id, holding the request's inputs and the
\* scores, tiers and texts of the response; db.commit was called once.
C27_SuccessMeansOneCommittedRecord ==
    [][(op' \in PredictOps /\ result'.status_code = 200) =>
          /\ Len(db'[TableOf(op')]) = Len(db[TableOf(op')]) + 1
          /\ \A t \in Tables : \A i \in 1..Len(db[t]) : db'[t][i] = db[t][i]
          /\ \A t \in Tables \ {TableOf(op')} : db'[t] = db[t]
          /\ \E row \in {db'[TableOf(op')][Len(db'[TableOf(op')])]} :
                /\ row.id = Len(db[TableOf(op')]) + 1
                /\ \A k \in DOMAIN input' : row[k] = RowOfRequest(op', input')[k]
                /\ \A k \in DOMAIN result'.body : row[k] = result'.body[k]
                /\ DOMAIN row = {"id"} \cup DOMAIN input' \cup DOMAIN result'.body
          /\ CountOf(trace', "db.commit") = 1
          /\ CountOf(trace', "db.add") = 1]_vars

\* A company request answered with 200 whose row is the second of its table.
C27_Witness ==
    /\ op = "predict_bankruptcy_risk"
    /\ result.status_code = 200
    /\ Len(db.company_assessments) = 2
    /\ db.company_assessments[2].company_name = input.company_name
    /\ db.company_assessments[2].taffler_z_score = result.body.taffler_z_score

----------------------------------------------------------------------------
(* Two /predict requests in flight at once, each in its own worker with    *)
(* its own session: inflight[i] holds the locals of the handler serving    *)
(* request i and the statement it has reached.  The statements of the two  *)
(* handlers interleave in any order; a commit is atomic in the database.   *)

RequestIds == {1, 2}

\* Requests of two companies' worth of different scores, with a date that
\* parses and one that does not.
ConcurrentRequests ==
    [company_name : {<<"a", "b">>},
     assessment_date : {d \in DateTexts : d.shape = "%Y-%m-%d" /\ d.month = 2},
     current_assets : {R(2), R(3)}, current_liabilities : {R(1)},
     debt_capital : {R(1)}, liabilities : {R(1)},
     sales_profit : {R(1)}, short_term_liabilities : {R(1)},
     long_term_liabilities : {R(1)}, total_assets : {R(1)},
     sales : {R(1)}]

Received(request, outcome) ==
    [pc |-> "received", request |-> request, outcome |-> outcome,
     results |-> NoResult, db_assessment |-> <<>>, calls |-> <<>>,
     response |-> NoResult]

InitConcurrent ==
    /\ op = "none"
    /\ input = <<>>
    /\ result = NoResult
    /\ trace = <<>>
    /\ history = <<>>
    /\ db = EmptyDatabase
    /\ inflight \in [RequestIds -> {Received(request, outcome) :
                                       request \in ConcurrentRequests,
                                       outcome \in CommitOutcomes}]

\* The handler of request i returns or raises: the response goes out.
Answer(i, response, calls) ==
    /\ inflight' = [inflight EXCEPT ![i].pc = "answered", ![i].response = response,
                                    ![i].calls = calls]
    /\ op' = "predict_bankruptcy_risk"
    /\ input' = inflight[i].request
    /\ result' = response
    /\ trace' = calls

\* The results held by whichever handler computed some.
ResultsOf_shared(flight, i) ==
    flight[CHOOSE j \in DOMAIN flight : flight[j].results # NoResult].results

\* results, a local of the handler (line 92)
ResultsOf(flight, i) == flight[i].results

\* results = calculate_bankruptcy_risk(financial_dict) (lines 89-92)
Calculate(i) ==
    /\ inflight[i].pc = "received"
    /\ \E r \in {calculate_bankruptcy_risk(Exclude(inflight[i].request,
                                                   {"company_name", "assessment_date"})).ret} :
          IF r.ok
          THEN /\ inflight' = [inflight EXCEPT ![i].pc = "calculated",
                                               ![i].results = r,
                                               ![i].calls = <<"calculate_bankruptcy_risk">>]
               /\ UNCHANGED <<op, input, result, trace>>
          ELSE Answer(i, ErrorResponse(predict_except([type |-> "ValueError"])),
                      <<"calculate_bankruptcy_risk">>)
    /\ UNCHANGED <<history, db>>

\* assessment_date = strptime(...); db_assessment = CompanyAssessment(...)
\* (lines 95-116)
BuildAssessment(i) ==
    /\ inflight[i].pc = "calculated"
    /\ \E assessment_date \in {strptime(inflight[i].request.assessment_date)} :
          IF assessment_date.ok
          THEN /\ inflight' =
                      [inflight EXCEPT
                          ![i].pc = "built",
                          ![i].db_assessment =
                              [assessment_date |-> assessment_date.value]
                                  @@ Exclude(inflight[i].request, {"assessment_date"})
                                  @@ Pick(ResultsOf(inflight, i), PredictionResponseFields),
                          ![i].calls = Append(@, "strptime")]
               /\ UNCHANGED <<op, input, result, trace>>
          ELSE Answer(i, ErrorResponse(predict_except([type |-> assessment_date.type])),
                      Append(inflight[i].calls, "strptime"))
    /\ UNCHANGED <<history, db>>

\* db.add(db_assessment); db.commit() (lines 119-120), and the except
\* clause when the commit raises (lines 122-129)
Commit(i) ==
    /\ inflight[i].pc = "built"
    /\ \E saved \in {SessionSave(db.company_assessments, inflight[i].db_assessment,
                                IF inflight[i].outcome.at = "commit"
                                THEN inflight[i].outcome
                                ELSE [at |-> "none", type |-> "none"])} :
          IF saved.raised
          THEN /\ Answer(i, ErrorResponse(predict_except(save_except(saved.type))),
                         inflight[i].calls \o saved.calls)
               /\ UNCHANGED db
          ELSE /\ inflight' = [inflight EXCEPT
                                  ![i].pc = "committed",
                                  ![i].db_assessment = saved.table[Len(saved.table)],
                                  ![i].calls = @ \o <<"db.add", "db.commit">>]
               /\ db' = WriteTable(db, "company_assessments", saved.table)
               /\ UNCHANGED <<op, input, result, trace>>
    /\ UNCHANGED history

\* db.refresh(db_assessment) (line 121), and the except clause when it
\* raises (lines 122-129)
Refresh(i) ==
    /\ inflight[i].pc = "committed"
    /\ IF inflight[i].outcome.at = "refresh"
       THEN Answer(i, ErrorResponse(predict_except(save_except(inflight[i].outcome.type))),
                   inflight[i].calls
                       \o <<"db.refresh:" \o inflight[i].outcome.type, "db.rollback">>)
       ELSE /\ inflight' = [inflight EXCEPT ![i].pc = "refreshed",
                                            ![i].calls = Append(@, "db.refresh")]
            /\ UNCHANGED <<op, input, result, trace>>
    /\ UNCHANGED <<history, db>>

\* result = PredictionResponse(**results); return result (lines 131-140)
Return(i) ==
    /\ inflight[i].pc = "refreshed"
    /\ Answer(i, Response(200, Pick(ResultsOf(inflight, i), PredictionResponseFields)),
              inflight[i].calls)
    /\ UNCHANGED <<history, db>>

CalculateStep == \E i \in RequestIds : Calculate(i)

BuildAssessmentStep == \E i \in RequestIds : BuildAssessment(i)

CommitStep == \E i \in RequestIds : Commit(i)

RefreshStep == \E i \in RequestIds : Refresh(i)

ReturnStep == \E i \in RequestIds : Return(i)

NextConcurrent ==
    \/ CalculateStep
    \/ BuildAssessmentStep
    \/ CommitStep
    \/ RefreshStep
    \/ ReturnStep

SpecConcurrent == InitConcurrent /\ [][NextConcurrent]_vars

\* The answer of the handler serving the request alone, from start to end.
Alone(request, outcome) ==
    predict_bankruptcy_risk(request, EmptyDatabase, {outcome})[outcome]

Answered(i) == inflight[i].pc = "answered"

\* C23: whatever the interleaving of the two handlers, the answer of each
\* request, and the calls its handler made, are those of the handler
\* serving the request alone; and once both are answered the table holds,
\* for each request answered with 200, exactly one row with the inputs and
\* the results of that request (and one for each request whose refresh
\* failed after its commit), and no other row.
C23_IndependentUnderInterleaving ==
    /\ \A i \in RequestIds :
          Answered(i) =>
              /\ inflight[i].response =
                     Alone(inflight[i].request, inflight[i].outcome).response
              /\ inflight[i].calls = Alone(inflight[i].request, inflight[i].outcome).calls
    /\ (\A i \in RequestIds : Answered(i)) =>
          \E owner \in [1..Len(db.company_assessments) -> RequestIds] :
              /\ \A m, n \in DOMAIN owner : m # n => owner[m] # owner[n]
              /\ \A i \in RequestIds :
                    (\E n \in DOMAIN owner : owner[n] = i)
                        <=> Len(Alone(inflight[i].request,
                                      inflight[i].outcome).db.company_assessments) = 1
              /\ \A n \in DOMAIN owner :
                    /\ db.company_assessments[n].id = n
                    /\ [db.company_assessments[n] EXCEPT !.id = 1] =
                           Alone(inflight[owner[n]].request,
                                 inflight[owner[n]].outcome).db.company_assessments[1]

\* Both requests answered with 200, with different scores, the second
\* having committed before the first.
C23_Witness ==
    /\ \A i \in RequestIds : Answered(i) /\ inflight[i].response.status_code = 200
    /\ inflight[1].response # inflight[2].response
    /\ Len(db.company_assessments) = 2
    /\ db.company_assessments[1].current_assets = inflight[2].request.current_assets
    /\ db.company_assessments[1].current_assets # db.company_assessments[2].current_assets

----------------------------------------------------------------------------
(* Queries with more forms of the date parameters, over what the predict   *)
(* handlers (at midnight of the assessment date) and the seeding script    *)
(* (at the time of day of its run) have stored.  A query stores nothing,   *)
(* so a behaviour is followed up to its first query: what comes after it   *)
(* comes as well without it.                                               *)

\* A day, the same day in another form, the empty text, the last day
\* datetime can hold.
QueryDateFilters ==
    {None,
     Some([shape |-> "%Y-%m-%d", year |-> 2024, month |-> 1, day |-> 31]),
     Some([shape |-> "%d.%m.%Y", year |-> 2024, month |-> 1, day |-> 31]),
     Some([shape |-> "", year |-> 0, month |-> 0, day |-> 0]),
     Some([shape |-> "%Y-%m-%d", year |-> 9999, month |-> 12, day |-> 31])}

InitQuery ==
    /\ op = "none"
    /\ input = <<>>
    /\ result = NoResult
    /\ trace = <<>>
    /\ history = <<>>
    /\ db = EmptyDatabase
    /\ inflight = <<>>

QueryCompanyStatistics ==
    \E company_name \in NameFilters, start_date \in QueryDateFilters,
          end_date \in QueryDateFilters :
           /\ op' = "get_company_statistics"
           /\ input' = [company_name |-> company_name, start_date |-> start_date,
                        end_date |-> end_date]
           /\ result' \in get_company_statistics(company_name, start_date, end_date, db)
           /\ trace' = <<"db.query">>
           /\ UNCHANGED <<history, db, inflight>>

QueryIndividualStatistics ==
    \E full_name \in NameFilters, start_date \in QueryDateFilters,
          end_date \in QueryDateFilters :
           /\ op' = "get_individual_statistics"
           /\ input' = [full_name |-> full_name, start_date |-> start_date,
                        end_date |-> end_date]
           /\ result' \in get_individual_statistics(full_name, start_date, end_date, db)
           /\ trace' = <<"db.query">>
           /\ UNCHANGED <<history, db, inflight>>

QueryCompanyHistory ==
    \E company_name \in HistoryNames :
           /\ op' = "get_company_history"
           /\ input' = [company_name |-> company_name]
           /\ result' \in get_company_history(company_name, db)
           /\ trace' = <<"db.query">>
           /\ UNCHANGED <<history, db, inflight>>

QueryIndividualHistory ==
    \E full_name \in HistoryNames :
           /\ op' = "get_individual_history"
           /\ input' = [full_name |-> full_name]
           /\ result' \in get_individual_history(full_name, db)
           /\ trace' = <<"db.query">>
           /\ UNCHANGED <<history, db, inflight>>

NextQuery ==
    \/ BeforeQuery /\ PredictBankruptcyRisk
    \/ BeforeQuery /\ PredictIndividualCreditRisk
    \/ BeforeQuery /\ SeedDatabase
    \/ BeforeQuery /\ QueryCompanyStatistics
    \/ BeforeQuery /\ QueryIndividualStatistics
    \/ BeforeQuery /\ QueryCompanyHistory
    \/ BeforeQuery /\ QueryIndividualHistory

SpecQuery == InitQuery /\ [][NextQuery]_vars

HistoryOps == {"get_company_history", "get_individual_history"}

StatisticsOps == {"get_company_statistics", "get_individual_statistics"}

\* The table a query reads, the column it matches the name against, the
\* key of the name in the request.
QueryTable == IF op \in {"get_company_history", "get_company_statistics"}
              THEN db.company_assessments ELSE db.individual_assessments

QueryNameColumn == IF op \in {"get_company_history", "get_company_statistics"}
                   THEN "company_name" ELSE "full_name"

\* The answered items are the rows of the set, each once, the keys of the
\* items copied from the rows and the date in ISO form.
ItemsAreRows(items, table, rows) ==
    /\ Len(items) = Cardinality(rows)
    /\ \A i \in 1..Len(items) :
          Cardinality({j \in 1..Len(items) : items[j] = items[i]})
              = Cardinality({r \in rows : Item(table[r], DOMAIN items[i]) = items[i]})

\* C28: a history request is answered with 404 when no stored record has
\* exactly the requested name (letter case included), and otherwise with
\* 200, the requested name, exactly the records of that name in ascending
\* order of assessment_date, and total_assessments equal to their number.
C28_HistoryExactNameAscending ==
    op \in HistoryOps =>
        LET name == input[QueryNameColumn]
            rows == {i \in 1..Len(QueryTable) : QueryTable[i][QueryNameColumn] = name}
        IN  IF rows = {} THEN result.status_code = 404
            ELSE /\ result.status_code = 200
                 /\ result.body[QueryNameColumn] = name
                 /\ result.body.total_assessments = Len(result.body.history)
                 /\ ItemsAreRows(result.body.history, QueryTable, rows)
                 /\ \A i, j \in 1..Len(result.body.history) :
                       i < j => ~DateTimeLess(result.body.history[j].assessment_date,
                                              result.body.history[i].assessment_date)

\* A history answered with one record of two whose names differ in letter
\* case only.
C28_Witness ==
    /\ op = "get_company_history"
    /\ result.status_code = 200
    /\ Len(db.company_assessments) = 2
    /\ db.company_assessments[1].company_name # db.company_assessments[2].company_name
    /\ result.body.total_assessments = 1

\* A date parameter that is given and is not a date in YYYY-MM-DD form.
NotInDateForm(parameter) == parameter.kind = "Some" /\ ~strptime(parameter.value).ok

\* assessment_date < end_date + 1 day, the day after taken on the calendar
\* with no last day.
BeforeDayAfter(dt, end) ==
    \/ DateTimeLess(dt, [end EXCEPT !.day = @ + 1])
    \/ dt.year < end.year
    \/ dt.year = end.year /\ dt.month < end.month

\* C29: a statistics request whose start_date or end_date is not in
\* YYYY-MM-DD form is answered with 400; every other statistics request is
\* answered with 200, exactly the stored records with
\* start_date <= assessment_date < end_date + 1 day (each bound only when
\* given) in descending order of assessment_date, and total equal to their
\* number.
C29_StatisticsDateRange ==
    op \in StatisticsOps =>
        IF NotInDateForm(input.start_date) \/ NotInDateForm(input.end_date)
        THEN result.status_code = 400
        ELSE LET rows ==
                     {i \in 1..Len(QueryTable) :
                         /\ TruthyText(input[QueryNameColumn]) =>
                                ilike(QueryTable[i][QueryNameColumn],
                                      input[QueryNameColumn].value)
                         /\ input.start_date.kind = "Some" =>
                                ~DateTimeLess(QueryTable[i].assessment_date,
                                              strptime(input.start_date.value).value)
                         /\ input.end_date.kind = "Some" =>
                                BeforeDayAfter(QueryTable[i].assessment_date,
                                               strptime(input.end_date.value).value)}
             IN  /\ result.status_code = 200
                 /\ result.body.total = Len(result.body.assessments)
                 /\ ItemsAreRows(result.body.assessments, QueryTable, rows)
                 /\ \A i, j \in 1..Len(result.body.assessments) :
                       i < j => ~DateTimeLess(result.body.assessments[i].assessment_date,
                                              result.body.assessments[j].assessment_date)

----------------------------------------------------------------------------
(* Monotonicity of the individual score within the accepted range.         *)

MonotoneCredits == {2, 24, 40}

MonotoneYears == {0, 20, 21}

MonotoneAges == {18, 25, 100}

\* Inputs IndividualDataRequest accepts (models.py lines 57-63).
MonotoneInputs ==
    [monthly_income : 1..MaxIncome, monthly_expenses : 1..MaxIncome,
     credit_amount : MonotoneCredits, credit_history_score : {0, 1},
     has_collateral : {0, 1}, employment_years : MonotoneYears,
     age : MonotoneAges]

InitMonotone ==
    /\ op = "none"
    /\ input \in MonotoneInputs
    /\ result = NoResult
    /\ trace = <<>>
    /\ history = <<>>
    /\ db = EmptyDatabase
    /\ inflight = <<>>

NextMonotone == CalculateIndividualCreditScore \/ CalculateIndividualRisk

SpecMonotone == InitMonotone /\ [][NextMonotone]_vars

UnclampedOf(fd) ==
    UnclampedScore(fd.monthly_income, fd.monthly_expenses, fd.credit_amount,
                   fd.credit_history_score, fd.has_collateral, fd.employment_years,
                   fd.age)

\* The inputs that differ from fd in one field only, the field changed in
\* the favourable direction: credit history, employment years or income
\* higher, expenses, age or credit amount lower.
ImprovedInOneField(fd) ==
    {With(fd, "credit_history_score", v) : v \in {x \in {0, 1} : x > fd.credit_history_score}}
    \cup {With(fd, "employment_years", v) : v \in {x \in MonotoneYears : x > fd.employment_years}}
    \cup {With(fd, "monthly_income", v) : v \in {x \in 1..MaxIncome : x > fd.monthly_income}}
    \cup {With(fd, "monthly_expenses", v) : v \in {x \in 1..MaxIncome : x < fd.monthly_expenses}}
    \cup {With(fd, "age", v) : v \in {x \in MonotoneAges : x < fd.age}}
    \cup {With(fd, "credit_amount", v) : v \in {x \in MonotoneCredits : x < fd.credit_amount}}

\* The inputs with a higher income-to-expense ratio than fd and the same
\* credit amount, credit history, collateral, employment years and age.
HigherRatio(fd) ==
    {With(With(fd, "monthly_income", i), "monthly_expenses", e) :
        <<i, e>> \in {p \in (1..MaxIncome) \X (1..MaxIncome) :
                        RLt(Rat(fd.monthly_income, fd.monthly_expenses), Rat(p[1], p[2]))}}

\* better scores at least as high as fd, unclamped and clamped, and its tier
\* is not more severe.
NotWorse(fd, better) ==
    /\ RLe(UnclampedOf(fd), UnclampedOf(better))
    /\ RLe(calculate_individual_credit_score(fd).score,
           calculate_individual_credit_score(better).score)
    /\ Severity(calculate_individual_credit_score(better).risk_level)
           <= Severity(calculate_individual_credit_score(fd).risk_level)

\* C30 as stated: the score computed for an accepted input is not higher
\* than the score of any accepted input with a higher credit history,
\* more employment years, a higher income-to-expense ratio, a lower age or
\* a lower credit amount and the other inputs equal, and its tier is not
\* less severe.
C30_MonotoneInRatio ==
    (op = "calculate_individual_credit_score" /\ result.ok) =>
        /\ result = calculate_individual_credit_score(input)
        /\ \A better \in ImprovedInOneField(input) \cup HigherRatio(input) :
              NotWorse(input, better)

\* C30: the score computed for an accepted input is not higher than the
\* score of any accepted input that differs in one field only, with a higher
\* credit history, more employment years, a higher monthly income, lower
\* monthly expenses, a lower age or a lower credit amount, and its tier is
\* not less severe.
C30_MonotoneInEachInput ==
    (op = "calculate_individual_credit_score" /\ result.ok) =>
        /\ result = calculate_individual_credit_score(input)
        /\ \A better \in ImprovedInOneField(input) : NotWorse(input, better)

\* A score computed that a higher credit history lifts from the medium tier
\* to the low one.
C30_Witness ==
    /\ op = "calculate_individual_credit_score"
    /\ result.ok
    /\ result.risk_level = "medium"
    /\ \E better \in ImprovedInOneField(input) :
          /\ better.credit_history_score > input.credit_history_score
          /\ calculate_individual_credit_score(better).risk_level = "low"
          /\ RLt(result.score, calculate_individual_credit_score(better).score)

====
